---- MODULE Spec2Model ----
(***************************************************************************)
(* The relational data model of the social application: the eight tables   *)
(* of supabase/migrations/20251115160152_create_social_app_schema.sql with *)
(* their CHECK / UNIQUE / FOREIGN KEY constraints, the row-level-security  *)
(* policies as last recreated by                                           *)
(* 20251115163920_fix_all_security_and_performance_issues.sql, the two     *)
(* triggers, and the client handlers of src/src/pages that issue requests. *)
(*                                                                         *)
(* A table is a set of rows (records).  A request is one statement issued  *)
(* by an authenticated caller (auth.uid() = the caller); it is one atomic  *)
(* step, triggers and cascades included.  NULL is modelled by 0; row ids   *)
(* are positive.  A text column of which only char_length is ever examined *)
(* (content) is modelled by that length; username is a sequence of         *)
(* characters.  Timestamps are natural numbers read from the clock `now`.  *)
(***************************************************************************)
EXTENDS Naturals, Sequences, FiniteSets

VARIABLES profiles, posts, likes, comments, follows, conversations, messages,
          notifications, now, last, gone, tabs

tables == <<profiles, posts, likes, comments, follows, conversations,
            messages, notifications>>
vars == <<profiles, posts, likes, comments, follows, conversations, messages,
          notifications, now, last, gone, tabs>>

(* ------------------------------ bounds --------------------------------- *)
\* Authenticated accounts (rows of auth.users); a caller is one of them.
NumUsers == 3
\* Rows a table other than profiles may hold at once, and ids it draws from.
MaxRows == 2
\* Rows all tables other than profiles hold together, where all tables fill.
MaxTotal == 3
\* Browser tabs open at once.
NumTabs == 2
\* Last instant of the clock.
MaxTime == 1

Users == 1..NumUsers
Ids == 1..MaxRows
Times == 0..MaxTime
NULL == 0

(* ------------------------------ helpers -------------------------------- *)
Min(a, b) == IF a <= b THEN a ELSE b
Max(a, b) == IF a >= b THEN a ELSE b
\* LEAST / GREATEST of the unique index on conversations.
LEAST(a, b) == Min(a, b)
GREATEST(a, b) == Max(a, b)

IdsOf(T) == {r.id : r \in T}
\* DEFAULT gen_random_uuid(): an id no row of the table has (the least one).
FreshId(T) ==
    CHOOSE i \in 1..(MaxRows + 1) :
        i \notin IdsOf(T) /\ \A j \in 1..(MaxRows + 1) : j \notin IdsOf(T) => i <= j
\* The bound on a table stops only the inserts that would add a row to it.
HasRoom(T, res) == res # "ok" \/ Cardinality(T) < MaxRows

NoRow == [id |-> NULL]

(* ------------------------- CHECK constraints --------------------------- *)
UsernameMin == 3
UsernameMax == 30
PostMax == 5000
CommentMax == 2000
MessageMax == 2000

Lower == {"a", "b", "c", "d", "e", "f", "g", "h", "i", "j", "k", "l", "m",
          "n", "o", "p", "q", "r", "s", "t", "u", "v", "w", "x", "y", "z"}
Upper == {"A", "B", "C", "D", "E", "F", "G", "H", "I", "J", "K", "L", "M",
          "N", "O", "P", "Q", "R", "S", "T", "U", "V", "W", "X", "Y", "Z"}
Digits == {"0", "1", "2", "3", "4", "5", "6", "7", "8", "9"}
\* The characters the bracket expression [a-zA-Z0-9_] matches.
WordChars == Lower \cup Upper \cup Digits \cup {"_"}

char_length(s) == Len(s)

\* username ~ '^[a-zA-Z0-9_]+$'
username_format(u) == Len(u) >= 1 /\ \A i \in 1..Len(u) : u[i] \in WordChars

username_length_exclusive(u) == char_length(u) > UsernameMin - 2 /\ char_length(u) <= UsernameMax
username_length(u) == char_length(u) >= UsernameMin /\ char_length(u) <= UsernameMax

content_length(c) == c > 0 /\ c <= PostMax
comment_length_as_post(c) == c > 0 /\ c <= PostMax
comment_length(c) == c > 0 /\ c <= CommentMax
message_length(c) == c > 0 /\ c <= MessageMax

no_self_follow_dropped(f) == TRUE
no_self_follow(f) == f.follower_id # f.following_id

different_users(c) == c.user1_id # c.user2_id

NotificationTypes == {"follow", "like", "comment", "mention", "message"}
valid_notification_type(t) == t \in NotificationTypes

(* --------------------- row-level-security policies --------------------- *)
\* uid is (SELECT auth.uid()); r is the row the predicate is evaluated on:
\* the existing row for USING, the new row for WITH CHECK.

\* "Public profiles are viewable by everyone"
profiles_select(uid, r) == TRUE
\* "Users can insert their own profile"
profiles_insert_check(uid, r) == uid = r.id
\* "Users can update their own profile"
profiles_update_using(uid, r) == uid = r.id
profiles_update_check(uid, r) == uid = r.id

\* "Posts are viewable by authenticated users"
posts_select(uid, r) == TRUE
\* "Users can create their own posts"
posts_insert_check(uid, r) == uid = r.user_id
\* "Users can update their own posts"
posts_update_using(uid, r) == uid = r.user_id
posts_update_check_any(uid, r) == TRUE
posts_update_check(uid, r) == uid = r.user_id
\* "Users can delete their own posts"
posts_delete_using(uid, r) == uid = r.user_id

\* "Likes are viewable by authenticated users"
likes_select(uid, r) == TRUE
\* "Users can create their own likes"
likes_insert_check(uid, r) == uid = r.user_id
\* "Users can delete their own likes"
likes_delete_using(uid, r) == uid = r.user_id

\* "Comments are viewable by authenticated users"
comments_select(uid, r) == TRUE
\* "Users can create their own comments"
comments_insert_check(uid, r) == uid = r.user_id
\* "Users can update their own comments"
comments_update_using(uid, r) == uid = r.user_id
comments_update_check(uid, r) == uid = r.user_id
\* "Users can delete their own comments"
comments_delete_using(uid, r) == uid = r.user_id

\* "Follows are viewable by authenticated users"
follows_select(uid, r) == TRUE
\* "Users can create their own follows"
follows_insert_check(uid, r) == uid = r.follower_id
\* "Users can delete their own follows"
follows_delete_using(uid, r) == uid = r.follower_id

\* "Users can view their own conversations"
conversations_select_user1(uid, r) == uid = r.user1_id
conversations_select(uid, r) == uid = r.user1_id \/ uid = r.user2_id
\* "Users can create conversations"
conversations_insert_check(uid, r) == uid = r.user1_id \/ uid = r.user2_id
\* "Users can update their own conversations"
conversations_update_using(uid, r) == uid = r.user1_id \/ uid = r.user2_id
conversations_update_check_any(uid, r) == TRUE
conversations_update_check(uid, r) == uid = r.user1_id \/ uid = r.user2_id

\* EXISTS (SELECT 1 FROM conversations WHERE conversations.id = <cid>
\*         AND (conversations.user1_id = uid OR conversations.user2_id = uid))
InConversation(uid, cid) ==
    \E c \in conversations : c.id = cid /\ (c.user1_id = uid \/ c.user2_id = uid)

\* "Users can view messages in their conversations"
messages_select_any_conversation(uid, r) ==
    \E c \in conversations : c.id = r.conversation_id
messages_select(uid, r) == InConversation(uid, r.conversation_id)
\* "Users can create messages in their conversations"
messages_insert_check_sender_only(uid, r) == uid = r.sender_id
messages_insert_check(uid, r) == uid = r.sender_id /\ InConversation(uid, r.conversation_id)
\* "Users can update their own messages"
messages_update_using(uid, r) == InConversation(uid, r.conversation_id)
messages_update_check(uid, r) == InConversation(uid, r.conversation_id)

\* "Users can view their own notifications"
notifications_select(uid, r) == uid = r.user_id
\* "Users can create notifications"
notifications_insert_check_recipient(uid, r) == uid = r.user_id
notifications_insert_check(uid, r) == uid = r.actor_id
\* "Users can update their own notifications"
notifications_update_using(uid, r) == uid = r.user_id
notifications_update_check(uid, r) == uid = r.user_id
\* "Users can delete their own notifications"
notifications_delete_using(uid, r) == uid = r.user_id

(* ------------------- UNIQUE and FOREIGN KEY constraints ----------------- *)
\* Each takes the table without the row being written (T \ {old} on update).
\* Row level security is enabled and no policy exists for these commands:
\* with no permissive policy, no row passes.
profiles_delete_using(uid, r) == FALSE
likes_update_using(uid, r) == FALSE
likes_update_check(uid, r) == FALSE
follows_update_using(uid, r) == FALSE
follows_update_check(uid, r) == FALSE
conversations_delete_using(uid, r) == FALSE
messages_delete_using_sender(uid, r) == uid = r.sender_id
messages_delete_using(uid, r) == FALSE

profiles_pkey(T, r) == \A p \in T : p.id # r.id
\* username text UNIQUE
profiles_username_key(T, r) == \A p \in T : p.username # r.username
\* UNIQUE(user_id, post_id)
likes_user_id_post_id_key_dropped(T, r) == TRUE
likes_user_id_post_id_key(T, r) ==
    \A l \in T : ~(l.user_id = r.user_id /\ l.post_id = r.post_id)
\* UNIQUE(follower_id, following_id)
follows_follower_id_following_id_key(T, r) ==
    \A f \in T : ~(f.follower_id = r.follower_id /\ f.following_id = r.following_id)
\* UNIQUE INDEX ON conversations (LEAST(user1_id, user2_id), GREATEST(user1_id, user2_id))
conversations_users_idx_dropped(T, r) == TRUE
conversations_users_idx_ordered(T, r) ==
    \A c \in T : ~(c.user1_id = r.user1_id /\ c.user2_id = r.user2_id)
conversations_users_idx(T, r) ==
    \A c \in T : ~(LEAST(c.user1_id, c.user2_id) = LEAST(r.user1_id, r.user2_id)
                   /\ GREATEST(c.user1_id, c.user2_id) = GREATEST(r.user1_id, r.user2_id))

\* REFERENCES t(id): the referenced row exists (a NULL reference is not checked).
Refs(T, i) == i \in IdsOf(T)
RefsOrNull(T, i) == i = NULL \/ i \in IdsOf(T)

posts_fkey(r) == Refs(profiles, r.user_id)
likes_fkey(r) == Refs(profiles, r.user_id) /\ Refs(posts, r.post_id)
comments_fkey(T, r) ==
    Refs(profiles, r.user_id) /\ Refs(posts, r.post_id) /\ RefsOrNull(T, r.parent_id)
follows_fkey(r) == Refs(profiles, r.follower_id) /\ Refs(profiles, r.following_id)
conversations_fkey(r) == Refs(profiles, r.user1_id) /\ Refs(profiles, r.user2_id)
messages_fkey(r) == Refs(conversations, r.conversation_id) /\ Refs(profiles, r.sender_id)
notifications_fkey(r) ==
    /\ Refs(profiles, r.user_id) /\ Refs(profiles, r.actor_id)
    /\ RefsOrNull(posts, r.post_id) /\ RefsOrNull(comments, r.comment_id)

(* ------------------------- outcome of a statement ---------------------- *)
\* An INSERT evaluates the WITH CHECK policy on the new row, then the CHECK
\* constraints, then the unique indexes, and the foreign keys at the end of
\* the statement; the first failure aborts it.
InsertResult(policy, check, unique, fkey) ==
    IF ~policy THEN "rls"
    ELSE IF ~check THEN "check"
    ELSE IF ~unique THEN "unique"
    ELSE IF ~fkey THEN "fkey"
    ELSE "ok"

\* An UPDATE sees only the rows its USING policy (and the SELECT policy)
\* passes: a row that fails it is not an error, the statement updates no row.
UpdateResult(using, policy, check, unique, fkey) ==
    IF ~using THEN "norows" ELSE InsertResult(policy, check, unique, fkey)

\* A DELETE removes only the rows its USING policy (and the SELECT policy) passes.
DeleteResult(using) == IF using THEN "ok" ELSE "norows"

\* What the client learns of a statement: its outcome, the row it targeted
\* (old) and the row it wrote (new).
Request(t, o, c, res, old, new) ==
    [table |-> t, op |-> o, caller |-> c, result |-> res, old |-> old, new |-> new]

(* ------------------------------ database ------------------------------- *)
DB == [profiles |-> profiles, posts |-> posts, likes |-> likes, comments |-> comments,
       follows |-> follows, conversations |-> conversations, messages |-> messages,
       notifications |-> notifications]

Put(d) ==
    /\ profiles' = d.profiles
    /\ posts' = d.posts
    /\ likes' = d.likes
    /\ comments' = d.comments
    /\ follows' = d.follows
    /\ conversations' = d.conversations
    /\ messages' = d.messages
    /\ notifications' = d.notifications

\* What the browser tabs hold.
clientVars == <<tabs>>

(* -------- REFERENCES ... ON DELETE CASCADE, one operator per table ------ *)
\* The rows of the table that survive: those whose referenced rows all exist.
posts_cascade(d) == {r \in d.posts : Refs(d.profiles, r.user_id)}
likes_cascade_user_only(d) == {r \in d.likes : Refs(d.profiles, r.user_id)}
likes_cascade(d) ==
    {r \in d.likes : Refs(d.profiles, r.user_id) /\ Refs(d.posts, r.post_id)}
comments_cascade(d) ==
    {r \in d.comments : /\ Refs(d.profiles, r.user_id)
                        /\ Refs(d.posts, r.post_id)
                        /\ RefsOrNull(d.comments, r.parent_id)}
follows_cascade(d) ==
    {r \in d.follows : Refs(d.profiles, r.follower_id) /\ Refs(d.profiles, r.following_id)}
conversations_cascade(d) ==
    {r \in d.conversations : Refs(d.profiles, r.user1_id) /\ Refs(d.profiles, r.user2_id)}
messages_cascade(d) ==
    {r \in d.messages : /\ Refs(d.conversations, r.conversation_id)
                        /\ Refs(d.profiles, r.sender_id)}
notifications_cascade_direct(d) ==
    {r \in d.notifications : Refs(d.profiles, r.user_id) /\ Refs(d.profiles, r.actor_id)}
notifications_cascade(d) ==
    {r \in d.notifications : /\ Refs(d.profiles, r.user_id)
                             /\ Refs(d.profiles, r.actor_id)
                             /\ RefsOrNull(d.posts, r.post_id)
                             /\ RefsOrNull(d.comments, r.comment_id)}

CascadeStep(d) ==
    [profiles |-> d.profiles,
     posts |-> posts_cascade(d),
     likes |-> likes_cascade(d),
     comments |-> comments_cascade(d),
     follows |-> follows_cascade(d),
     conversations |-> conversations_cascade(d),
     messages |-> messages_cascade(d),
     notifications |-> notifications_cascade(d)]

\* The cascade runs until no row references a deleted row.
RECURSIVE Cascade(_)
Cascade(d) == IF CascadeStep(d) = d THEN d ELSE Cascade(CascadeStep(d))

(* ------------------------------- triggers ------------------------------ *)
\* BEFORE UPDATE ON profiles / posts / comments: NEW.updated_at = now()
update_updated_at_column_kept(new) == new
update_updated_at_column(new) == [new EXCEPT !.updated_at = now]

\* AFTER INSERT ON messages:
\* UPDATE conversations SET last_message_at = NEW.created_at WHERE id = NEW.conversation_id
update_conversation_last_message_now(T, new) ==
    {IF c.id = new.conversation_id THEN [c EXCEPT !.last_message_at = now] ELSE c : c \in T}
update_conversation_last_message(T, new) ==
    {IF c.id = new.conversation_id THEN [c EXCEPT !.last_message_at = new.created_at] ELSE c
       : c \in T}

(* ------------------------------ requests ------------------------------- *)
\* A request ends with the tables as the statement left them and with `last`
\* holding the request and its outcome, until the client has read the answer.
NoRequest == Request("none", "none", NULL, "ok", NoRow, NoRow)

\* The client has no request in flight.
Idle == last = NoRequest

\* The rows of each table that the statement removed or replaced.
Gone(d) ==
    [profiles |-> profiles \ d.profiles, posts |-> posts \ d.posts,
     likes |-> likes \ d.likes, comments |-> comments \ d.comments,
     follows |-> follows \ d.follows, conversations |-> conversations \ d.conversations,
     messages |-> messages \ d.messages, notifications |-> notifications \ d.notifications]

Do(d, req) ==
    /\ Put(d)
    /\ last' = req
    /\ gone' = Gone(d)
    /\ UNCHANGED now

With_always(T, res, old, new) == (T \ {old}) \cup {new}
With(T, res, old, new) == IF res = "ok" THEN (T \ {old}) \cup {new} ELSE T
Without(d, res) == IF res = "ok" THEN Cascade(d) ELSE DB

\* The client reads the answer to its request.
Respond ==
    /\ last # NoRequest
    /\ last' = NoRequest
    /\ gone' = Gone(DB)
    /\ UNCHANGED <<tables, now>>

\* now() advances between statements.
Tick ==
    /\ Idle
    /\ now < MaxTime
    /\ now' = now + 1
    /\ UNCHANGED <<tables, last, gone>>

(* profiles *)
profiles_constraints(r) == username_length(r.username) /\ username_format(r.username)
profiles_unique(T, r) == profiles_pkey(T, r) /\ profiles_username_key(T, r)
\* A key that other rows reference cannot be changed (ON UPDATE NO ACTION).
profiles_referenced(i) ==
    \/ \E r \in posts \cup likes \cup comments : r.user_id = i
    \/ \E r \in follows : r.follower_id = i \/ r.following_id = i
    \/ \E r \in conversations : r.user1_id = i \/ r.user2_id = i
    \/ \E r \in messages : r.sender_id = i
    \/ \E r \in notifications : r.user_id = i \/ r.actor_id = i

InsertProfile(c, r) ==
    /\ Idle
    /\ LET new == [id |-> r.id, username |-> r.username, updated_at |-> now]
           res == InsertResult(profiles_insert_check(c, new), profiles_constraints(new),
                               profiles_unique(profiles, new), new.id \in Users)
       IN Do([DB EXCEPT !.profiles = With(profiles, res, NoRow, new)],
             Request("profiles", "insert", c, res, NoRow, new))

UpdateProfile(c, old, r) ==
    /\ Idle
    /\ old \in profiles
    /\ LET new == update_updated_at_column(
                      [id |-> r.id, username |-> r.username, updated_at |-> r.updated_at])
           res == UpdateResult(profiles_update_using(c, old), profiles_update_check(c, new),
                               profiles_constraints(new),
                               profiles_unique(profiles \ {old}, new),
                               new.id \in Users /\ (new.id = old.id \/ ~profiles_referenced(old.id)))
       IN Do([DB EXCEPT !.profiles = With(profiles, res, old, new)],
             Request("profiles", "update", c, res, old, new))

\* profiles.id REFERENCES auth.users(id) ON DELETE CASCADE: the account is
\* deleted by the service role; no policy lets a caller delete a profile.
DeleteUser(old) ==
    /\ Idle
    /\ old \in profiles
    /\ Do(Cascade([DB EXCEPT !.profiles = profiles \ {old}]),
          Request("profiles", "delete", NULL, "ok", old, NoRow))

(* posts *)
InsertPost(c, r) ==
    /\ Idle
    /\ LET new == [id |-> FreshId(posts), user_id |-> r.user_id, content |-> r.content,
                   updated_at |-> now]
           res == InsertResult(posts_insert_check(c, new), content_length(new.content),
                               TRUE, posts_fkey(new))
       IN /\ HasRoom(posts, res)
          /\ Do([DB EXCEPT !.posts = With(posts, res, NoRow, new)],
                 Request("posts", "insert", c, res, NoRow, new))

UpdatePost(c, old, r) ==
    /\ Idle
    /\ old \in posts
    /\ LET new == update_updated_at_column(
                      [id |-> old.id, user_id |-> r.user_id, content |-> r.content,
                       updated_at |-> r.updated_at])
           res == UpdateResult(posts_update_using(c, old), posts_update_check(c, new),
                               content_length(new.content), TRUE, posts_fkey(new))
       IN Do([DB EXCEPT !.posts = With(posts, res, old, new)],
             Request("posts", "update", c, res, old, new))

DeletePost(c, old) ==
    /\ Idle
    /\ old \in posts
    /\ LET res == DeleteResult(posts_delete_using(c, old))
       IN Do(Without([DB EXCEPT !.posts = posts \ {old}], res),
             Request("posts", "delete", c, res, old, NoRow))

(* likes *)
InsertLike(c, r) ==
    /\ Idle
    /\ LET new == [id |-> FreshId(likes), user_id |-> r.user_id, post_id |-> r.post_id]
           res == InsertResult(likes_insert_check(c, new), TRUE,
                               likes_user_id_post_id_key(likes, new), likes_fkey(new))
       IN /\ HasRoom(likes, res)
          /\ Do([DB EXCEPT !.likes = With(likes, res, NoRow, new)],
                 Request("likes", "insert", c, res, NoRow, new))

DeleteLike(c, old) ==
    /\ Idle
    /\ old \in likes
    /\ LET res == DeleteResult(likes_delete_using(c, old))
       IN Do(Without([DB EXCEPT !.likes = likes \ {old}], res),
             Request("likes", "delete", c, res, old, NoRow))

(* comments *)
InsertComment(c, r) ==
    /\ Idle
    /\ LET new == [id |-> FreshId(comments), user_id |-> r.user_id, post_id |-> r.post_id,
                   parent_id |-> r.parent_id, content |-> r.content, updated_at |-> now]
           res == InsertResult(comments_insert_check(c, new), comment_length(new.content),
                               TRUE, comments_fkey(comments, new))
       IN /\ HasRoom(comments, res)
          /\ Do([DB EXCEPT !.comments = With(comments, res, NoRow, new)],
                 Request("comments", "insert", c, res, NoRow, new))

UpdateComment(c, old, r) ==
    /\ Idle
    /\ old \in comments
    /\ LET new == update_updated_at_column(
                      [id |-> old.id, user_id |-> r.user_id, post_id |-> r.post_id,
                       parent_id |-> r.parent_id, content |-> r.content,
                       updated_at |-> r.updated_at])
           res == UpdateResult(comments_update_using(c, old), comments_update_check(c, new),
                               comment_length(new.content), TRUE,
                               comments_fkey((comments \ {old}) \cup {new}, new))
       IN Do([DB EXCEPT !.comments = With(comments, res, old, new)],
             Request("comments", "update", c, res, old, new))

DeleteComment(c, old) ==
    /\ Idle
    /\ old \in comments
    /\ LET res == DeleteResult(comments_delete_using(c, old))
       IN Do(Without([DB EXCEPT !.comments = comments \ {old}], res),
             Request("comments", "delete", c, res, old, NoRow))

(* follows *)
InsertFollow(c, r) ==
    /\ Idle
    /\ LET new == [id |-> FreshId(follows), follower_id |-> r.follower_id,
                   following_id |-> r.following_id]
           res == InsertResult(follows_insert_check(c, new), no_self_follow(new),
                               follows_follower_id_following_id_key(follows, new),
                               follows_fkey(new))
       IN /\ HasRoom(follows, res)
          /\ Do([DB EXCEPT !.follows = With(follows, res, NoRow, new)],
                 Request("follows", "insert", c, res, NoRow, new))

DeleteFollow(c, old) ==
    /\ Idle
    /\ old \in follows
    /\ LET res == DeleteResult(follows_delete_using(c, old))
       IN Do(Without([DB EXCEPT !.follows = follows \ {old}], res),
             Request("follows", "delete", c, res, old, NoRow))

(* conversations *)
InsertConversation(c, r) ==
    /\ Idle
    /\ LET new == [id |-> FreshId(conversations), user1_id |-> r.user1_id,
                   user2_id |-> r.user2_id, last_message_at |-> r.last_message_at]
           res == InsertResult(conversations_insert_check(c, new), different_users(new),
                               conversations_users_idx(conversations, new),
                               conversations_fkey(new))
       IN /\ HasRoom(conversations, res)
          /\ Do([DB EXCEPT !.conversations = With(conversations, res, NoRow, new)],
                 Request("conversations", "insert", c, res, NoRow, new))

UpdateConversation(c, old, r) ==
    /\ Idle
    /\ old \in conversations
    /\ LET new == [id |-> old.id, user1_id |-> r.user1_id, user2_id |-> r.user2_id,
                   last_message_at |-> r.last_message_at]
           res == UpdateResult(conversations_update_using(c, old),
                               conversations_update_check(c, new), different_users(new),
                               conversations_users_idx(conversations \ {old}, new),
                               conversations_fkey(new))
       IN Do([DB EXCEPT !.conversations = With(conversations, res, old, new)],
             Request("conversations", "update", c, res, old, new))

(* messages *)
InsertMessage(c, r) ==
    /\ Idle
    /\ LET new == [id |-> FreshId(messages), conversation_id |-> r.conversation_id,
                   sender_id |-> r.sender_id, content |-> r.content, is_read |-> FALSE,
                   created_at |-> r.created_at]
           res == InsertResult(messages_insert_check(c, new), message_length(new.content),
                               TRUE, messages_fkey(new))
       IN /\ HasRoom(messages, res)
          /\ Do([DB EXCEPT !.messages = With(messages, res, NoRow, new),
                            !.conversations =
                                IF res = "ok"
                                THEN update_conversation_last_message(conversations, new)
                                ELSE conversations],
                 Request("messages", "insert", c, res, NoRow, new))

UpdateMessage(c, old, r) ==
    /\ Idle
    /\ old \in messages
    /\ LET new == [id |-> old.id, conversation_id |-> r.conversation_id,
                   sender_id |-> r.sender_id, content |-> r.content, is_read |-> r.is_read,
                   created_at |-> r.created_at]
           res == UpdateResult(messages_update_using(c, old), messages_update_check(c, new),
                               message_length(new.content), TRUE, messages_fkey(new))
       IN Do([DB EXCEPT !.messages = With(messages, res, old, new)],
             Request("messages", "update", c, res, old, new))

(* notifications *)
InsertNotification(c, r) ==
    /\ Idle
    /\ LET new == [id |-> FreshId(notifications), user_id |-> r.user_id,
                   actor_id |-> r.actor_id, type |-> r.type, post_id |-> r.post_id,
                   comment_id |-> r.comment_id, is_read |-> FALSE]
           res == InsertResult(notifications_insert_check(c, new),
                               valid_notification_type(new.type), TRUE,
                               notifications_fkey(new))
       IN /\ HasRoom(notifications, res)
          /\ Do([DB EXCEPT !.notifications = With(notifications, res, NoRow, new)],
                 Request("notifications", "insert", c, res, NoRow, new))

UpdateNotification(c, old, r) ==
    /\ Idle
    /\ old \in notifications
    /\ LET new == [id |-> old.id, user_id |-> r.user_id, actor_id |-> r.actor_id,
                   type |-> r.type, post_id |-> r.post_id, comment_id |-> r.comment_id,
                   is_read |-> r.is_read]
           res == UpdateResult(notifications_update_using(c, old),
                               notifications_update_check(c, new),
                               valid_notification_type(new.type), TRUE,
                               notifications_fkey(new))
       IN Do([DB EXCEPT !.notifications = With(notifications, res, old, new)],
             Request("notifications", "update", c, res, old, new))

DeleteNotification(c, old) ==
    /\ Idle
    /\ old \in notifications
    /\ LET res == DeleteResult(notifications_delete_using(c, old))
       IN Do(Without([DB EXCEPT !.notifications = notifications \ {old}], res),
             Request("notifications", "delete", c, res, old, NoRow))

(* DELETE ... WHERE <filter>: M holds the rows the filter matches; the rows the
   policy passes are deleted, and none is an answer without an error. *)
DeleteFollows(c, M) ==
    /\ Idle
    /\ LET del == {r \in M : follows_delete_using(c, r)}
           res == IF del = {} THEN "norows" ELSE "ok"
       IN Do(Without([DB EXCEPT !.follows = follows \ del], res),
             Request("follows", "delete", c, res, NoRow, NoRow))

DeleteLikes(c, M) ==
    /\ Idle
    /\ LET del == {r \in M : likes_delete_using(c, r)}
           res == IF del = {} THEN "norows" ELSE "ok"
       IN Do(Without([DB EXCEPT !.likes = likes \ del], res),
             Request("likes", "delete", c, res, NoRow, NoRow))

DeleteNotifications(c, M) ==
    /\ Idle
    /\ LET del == {r \in M : notifications_delete_using(c, r)}
           res == IF del = {} THEN "norows" ELSE "ok"
       IN Do(Without([DB EXCEPT !.notifications = notifications \ del], res),
             Request("notifications", "delete", c, res, NoRow, NoRow))

(* UPDATE messages SET is_read = true WHERE conversation_id = cid AND
   sender_id <> uid: the rows the USING policy passes are updated, and the
   new rows must pass WITH CHECK. *)
MarkRead(c, cid) ==
    /\ Idle
    /\ LET upd == {m \in messages : /\ m.conversation_id = cid /\ m.sender_id # c
                                    /\ messages_update_using(c, m)}
           new == {[m EXCEPT !.is_read = TRUE] : m \in upd}
           res == IF upd = {} THEN "norows"
                  ELSE IF \E m \in new : ~messages_update_check(c, m) THEN "rls" ELSE "ok"
       IN Do([DB EXCEPT !.messages = IF res = "ok" THEN (messages \ upd) \cup new ELSE messages],
             Request("messages", "update", c, res, NoRow, [id |-> NULL, conversation_id |-> cid]))

(* commands no policy covers *)
DeleteProfile(c, old) ==
    /\ Idle
    /\ old \in profiles
    /\ LET res == DeleteResult(profiles_delete_using(c, old))
       IN Do(Without([DB EXCEPT !.profiles = profiles \ {old}], res),
             Request("profiles", "delete", c, res, old, NoRow))

DeleteConversation(c, old) ==
    /\ Idle
    /\ old \in conversations
    /\ LET res == DeleteResult(conversations_delete_using(c, old))
       IN Do(Without([DB EXCEPT !.conversations = conversations \ {old}], res),
             Request("conversations", "delete", c, res, old, NoRow))

DeleteMessage(c, old) ==
    /\ Idle
    /\ old \in messages
    /\ LET res == DeleteResult(messages_delete_using(c, old))
       IN Do(Without([DB EXCEPT !.messages = messages \ {old}], res),
             Request("messages", "delete", c, res, old, NoRow))

UpdateLike(c, old, r) ==
    /\ Idle
    /\ old \in likes
    /\ LET new == [id |-> old.id, user_id |-> r.user_id, post_id |-> r.post_id]
           res == UpdateResult(likes_update_using(c, old), likes_update_check(c, new), TRUE,
                               likes_user_id_post_id_key(likes \ {old}, new), likes_fkey(new))
       IN Do([DB EXCEPT !.likes = With(likes, res, old, new)],
             Request("likes", "update", c, res, old, new))

UpdateFollow(c, old, r) ==
    /\ Idle
    /\ old \in follows
    /\ LET new == [id |-> old.id, follower_id |-> r.follower_id,
                   following_id |-> r.following_id]
           res == UpdateResult(follows_update_using(c, old), follows_update_check(c, new),
                               no_self_follow(new),
                               follows_follower_id_following_id_key(follows \ {old}, new),
                               follows_fkey(new))
       IN Do([DB EXCEPT !.follows = With(follows, res, old, new)],
             Request("follows", "update", c, res, old, new))

\* SELECT * FROM <table>: the rows the SELECT policy shows the caller.
SelectPosts(c) == {r \in posts : posts_select(c, r)}
SelectProfiles(c) == {r \in profiles : profiles_select(c, r)}
SelectLikes(c) == {r \in likes : likes_select(c, r)}
SelectComments(c) == {r \in comments : comments_select(c, r)}
SelectFollows(c) == {r \in follows : follows_select(c, r)}
SelectConversations(c) == {r \in conversations : conversations_select(c, r)}
SelectMessages(c) == {r \in messages : messages_select(c, r)}
SelectNotifications(c) == {r \in notifications : notifications_select(c, r)}

(* --------------------------- initial states ---------------------------- *)
\* A valid username for account u; accounts get distinct ones.
Name(u) == [i \in 1..(UsernameMin + u - 1) |-> "a"]
\* One profile per account, as created at registration.
Accounts == {[id |-> u, username |-> Name(u), updated_at |-> 0] : u \in Users}
Owner(i) == ((i - 1) % NumUsers) + 1
\* Conversations the accounts have opened, one per id, between an account and the next.
SomeConversations ==
    {[id |-> i, user1_id |-> Owner(i), user2_id |-> Owner(i + 1), last_message_at |-> 0]
       : i \in Ids}
\* Posts the accounts have written, one per id.
SomePosts == {[id |-> i, user_id |-> Owner(i), content |-> 1, updated_at |-> 0] : i \in Ids}

\* Browser tabs; a tab is signed in as one account and runs one handler at a time.
Tabs == 1..NumTabs
\* Calls of one asynchronous function that a tab has in flight at once.
NumCalls == 2
Calls == 1..NumCalls
NoTask == [kind |-> "none", uid |-> NULL, target |-> NULL]
IdleTab == [pc |-> "idle", task |-> NoTask, found |-> FALSE, answer |-> "none"]

InitClient == tabs = [t \in Tabs |-> IdleTab]

InitEmpty ==
    /\ profiles = {} /\ posts = {} /\ likes = {} /\ comments = {} /\ follows = {}
    /\ conversations = {} /\ messages = {} /\ notifications = {}
    /\ now = 0 /\ last = NoRequest /\ gone = Gone(DB)
    /\ InitClient

\* The accounts are registered and nothing else is.
InitAccounts ==
    /\ profiles = Accounts
    /\ posts = {} /\ likes = {} /\ comments = {} /\ follows = {}
    /\ conversations = {} /\ messages = {} /\ notifications = {}
    /\ now = 0 /\ last = NoRequest /\ gone = Gone(DB)
    /\ InitClient

\* The accounts are registered and have posted.
InitPosts ==
    /\ profiles = Accounts
    /\ posts = SomePosts
    /\ likes = {} /\ comments = {} /\ follows = {}
    /\ conversations = {} /\ messages = {} /\ notifications = {}
    /\ now = 0 /\ last = NoRequest /\ gone = Gone(DB)
    /\ InitClient

\* The accounts are registered and have opened conversations.
InitConversations ==
    /\ profiles = Accounts
    /\ conversations = SomeConversations
    /\ posts = {} /\ likes = {} /\ comments = {} /\ follows = {}
    /\ messages = {} /\ notifications = {}
    /\ now = 0 /\ last = NoRequest /\ gone = Gone(DB)
    /\ InitClient

Accepted(t, o) == last.table = t /\ last.op = o /\ last.result = "ok"
Asked1(t, o) == Idle /\ last'.table = t /\ last'.op = o

(* ------------------------------- likes --------------------------------- *)
LikeInputs == [user_id : Users, post_id : Ids]
PostInputs == [user_id : Users, content : {1}]
CommentInputs == [user_id : Users, post_id : Ids, parent_id : {NULL} \cup Ids, content : {1}]

NextLikes ==
    \/ Respond /\ UNCHANGED clientVars
    \/ \E c \in Users :
        \/ \E r \in LikeInputs : InsertLike(c, r) /\ UNCHANGED clientVars
        \/ \E l \in likes : DeleteLike(c, l) /\ UNCHANGED clientVars

SpecLikes == InitPosts /\ [][NextLikes]_vars

SamePair(a, b) == a.user_id = b.user_id /\ a.post_id = b.post_id

\* C4: at most one Like row per (user_id, post_id) in every state, and an
\* insert of a Like whose (user_id, post_id) already exists fails and leaves
\* the likes table unchanged.
C4_LikeUnique ==
    /\ [](\A a, b \in likes : SamePair(a, b) => a = b)
    /\ [][(Asked1("likes", "insert") /\ \E l \in likes : SamePair(l, last'.new))
            => (last'.result # "ok" /\ likes' = likes)]_vars

\* A caller's second like of a post they already like was refused as a
\* uniqueness violation.
C4_Witness ==
    /\ last.table = "likes" /\ last.op = "insert" /\ last.result = "unique"
    /\ \E l \in likes : SamePair(l, last.new) /\ l.user_id = last.caller

(* ------------------------------ follows -------------------------------- *)
FollowInputs == [follower_id : Users, following_id : Users]

NextFollows ==
    \/ Respond /\ UNCHANGED clientVars
    \/ \E c \in Users :
        \/ \E r \in FollowInputs : InsertFollow(c, r) /\ UNCHANGED clientVars
        \/ \E f \in follows : DeleteFollow(c, f) /\ UNCHANGED clientVars

SpecFollows == InitAccounts /\ [][NextFollows]_vars

SameEdge(a, b) == a.follower_id = b.follower_id /\ a.following_id = b.following_id

\* C5: an insert of a Follow with follower_id = following_id is rejected and
\* an insert of a Follow whose ordered pair exists is rejected, so no state
\* holds a self-edge or the same ordered pair twice; the caller's insert of
\* the reverse edge of an existing follow is accepted.
C5_FollowRules ==
    /\ [](\A a, b \in follows : a.follower_id # a.following_id /\ (SameEdge(a, b) => a = b))
    /\ [][Asked1("follows", "insert") =>
            LET n == last'.new IN
            /\ (n.follower_id = n.following_id \/ \E f \in follows : SameEdge(f, n))
                  => (last'.result # "ok" /\ follows' = follows)
            /\ (/\ n.follower_id = last'.caller
                /\ n.follower_id # n.following_id
                /\ ~\E f \in follows : SameEdge(f, n))
                  => (last'.result = "ok" /\ n \in follows')]_vars

\* A follows B and B follows A, and a further insert of one of the two edges
\* by its follower was refused as a uniqueness violation.
C5_Witness ==
    /\ last.table = "follows" /\ last.op = "insert" /\ last.result = "unique"
    /\ last.new.follower_id = last.caller
    /\ \E a, b \in follows : /\ a.follower_id = b.following_id
                             /\ a.following_id = b.follower_id
                             /\ SameEdge(a, last.new)

(* --------------------------- conversations ----------------------------- *)
ConversationInputs == [user1_id : Users, user2_id : Users, last_message_at : {now}]
\* An update of the participants that keeps last_message_at.
ParticipantPatches(old) ==
    LET r == [user1_id |-> old.user1_id, user2_id |-> old.user2_id,
              last_message_at |-> old.last_message_at]
    IN {[r EXCEPT !.user1_id = u] : u \in Users} \cup {[r EXCEPT !.user2_id = u] : u \in Users}

NextConversations ==
    \/ Respond /\ UNCHANGED clientVars
    \/ \E c \in Users :
        \/ \E r \in ConversationInputs : InsertConversation(c, r) /\ UNCHANGED clientVars
        \/ \E old \in conversations : \E r \in ParticipantPatches(old) :
              UpdateConversation(c, old, r) /\ UNCHANGED clientVars

SpecConversations == InitAccounts /\ [][NextConversations]_vars

Pair(c) == {c.user1_id, c.user2_id}

\* C3: in every state at most one Conversation exists per unordered pair of
\* distinct profiles and none has user1_id = user2_id; once a conversation
\* (A,B) exists an insert of (A,B) or of (B,A) is rejected.
C3_ConversationUnique ==
    /\ [](\A a, b \in conversations :
            a.user1_id # a.user2_id /\ (Pair(a) = Pair(b) => a = b))
    /\ [][(Asked1("conversations", "insert")
            /\ \E c \in conversations : Pair(c) = Pair(last'.new))
            => (last'.result # "ok" /\ conversations' = conversations)]_vars

\* With (A,B) stored, B's insert of (B,A) was refused as a uniqueness violation.
C3_Witness ==
    /\ last.table = "conversations" /\ last.op = "insert" /\ last.result = "unique"
    /\ \E c \in conversations : /\ c.user1_id = last.new.user2_id
                                /\ c.user2_id = last.new.user1_id

(* ------------------------------ profiles ------------------------------- *)
Repeat(ch, n) == [i \in 1..n |-> ch]
\* Usernames a client may send: too short, shortest, longest, too long, with
\* a space, with a hyphen, mixed word characters, empty.
Usernames ==
    {<<"a", "b">>, <<"a", "b", "c">>, <<"a", " ", "b">>, <<"a", "-", "b", "c">>,
     <<"Z", "_", "9">>, <<>>, Repeat("x", UsernameMax), Repeat("x", UsernameMax + 1)}

ProfileInputs == [id : Users, username : Usernames]
ProfilePatches(old) == [id : {old.id}, username : Usernames, updated_at : {old.updated_at}]

NextProfiles ==
    \/ Respond /\ UNCHANGED clientVars
    \/ \E c \in Users :
        \/ \E r \in ProfileInputs : InsertProfile(c, r) /\ UNCHANGED clientVars
        \/ \E old \in profiles : \E r \in ProfilePatches(old) : UpdateProfile(c, old, r) /\ UNCHANGED clientVars

SpecProfiles == InitEmpty /\ [][NextProfiles]_vars

IsLetter(ch) == ch \in Lower \cup Upper
IsDigit(ch) == ch \in Digits
WellFormed(u) ==
    /\ Len(u) >= 3 /\ Len(u) <= 30
    /\ \A i \in 1..Len(u) : IsLetter(u[i]) \/ IsDigit(u[i]) \/ u[i] = "_"
WrittenUsername == Asked1("profiles", "insert") \/ Asked1("profiles", "update")

\* C6: a Profile insert or username update is accepted only if the username
\* has 3 to 30 characters, each a letter, digit or underscore, and no other
\* profile has it; "ab" and a username with a space are rejected, and the
\* caller's insert of their own profile with the free username "abc" is accepted.
C6_UsernameRules ==
    [][WrittenUsername =>
         LET n == last'.new
             others == profiles \ {last'.old}
         IN /\ last'.result = "ok" =>
                  (WellFormed(n.username) /\ \A p \in others : p.username # n.username)
            /\ (n.username = <<"a", "b">> \/ \E i \in 1..Len(n.username) : n.username[i] = " ")
                  => (last'.result # "ok" /\ profiles' = profiles)
            /\ (/\ last'.op = "insert" /\ n.username = <<"a", "b", "c">>
                /\ n.id = last'.caller
                /\ \A p \in profiles : p.id # n.id /\ p.username # n.username)
                  => (last'.result = "ok" /\ n \in profiles')]_vars

\* A profile named "abc" is stored and a write of a username with a space was
\* refused by a CHECK constraint.
C6_Witness ==
    /\ \E p \in profiles : p.username = <<"a", "b", "c">>
    /\ last.table = "profiles" /\ last.result = "check"
    /\ last.new.username = <<"a", " ", "b">>

(* ------------------------------ messages ------------------------------- *)
MessageInputs == [conversation_id : Ids, sender_id : Users, content : {1}, created_at : {now}]
\* Updates a client may send: mark read, or move to another conversation.
MessagePatches(old) ==
    LET r == [conversation_id |-> old.conversation_id, sender_id |-> old.sender_id,
              content |-> old.content, is_read |-> old.is_read,
              created_at |-> old.created_at]
    IN {[r EXCEPT !.is_read = TRUE]} \cup {[r EXCEPT !.conversation_id = i] : i \in Ids}

NextMessages ==
    \/ Respond /\ UNCHANGED clientVars
    \/ \E c \in Users :
        \/ \E r \in MessageInputs : InsertMessage(c, r) /\ UNCHANGED clientVars
        \/ \E old \in messages : \E r \in MessagePatches(old) : UpdateMessage(c, old, r) /\ UNCHANGED clientVars

SpecMessages == InitConversations /\ [][NextMessages]_vars

Outsider(x, cid) ==
    \E c \in conversations : c.id = cid /\ x \notin {c.user1_id, c.user2_id}

\* C2: a caller X who is neither user1_id nor user2_id of Conversation C
\* selects no Message of C, has an insert of a Message into C rejected, and
\* changes no row by an update of a Message of C.
C2_OutsiderMessages ==
    /\ [](\A x \in Users : \A m \in SelectMessages(x) : ~Outsider(x, m.conversation_id))
    /\ [][/\ (Asked1("messages", "insert")
               /\ Outsider(last'.caller, last'.new.conversation_id))
                 => (last'.result = "rls" /\ messages' = messages)
          /\ (Asked1("messages", "update")
               /\ Outsider(last'.caller, last'.old.conversation_id))
                 => (last'.result = "norows" /\ messages' = messages)]_vars

\* A conversation holds a message, and an outsider's update of it changed no row.
C2_Witness ==
    /\ last.table = "messages" /\ last.op = "update" /\ last.result = "norows"
    /\ last.old \in messages
    /\ Outsider(last.caller, last.old.conversation_id)
    /\ \E x \in Users : last.old \in SelectMessages(x)

(* ------------------------- conversation activity ----------------------- *)
\* created_at is DEFAULT now(), and a client may send its own instant.
\* A message sent in the caller's own name, with any created_at.
TimedMessageInputs(c) ==
    [conversation_id : Ids, sender_id : {c}, content : {1}, created_at : Times]

NextActivity ==
    \/ Respond /\ UNCHANGED clientVars
    \/ Tick /\ UNCHANGED clientVars
    \/ \E c \in Users : \E r \in TimedMessageInputs(c) : InsertMessage(c, r) /\ UNCHANGED clientVars

SpecActivity == InitConversations /\ [][NextActivity]_vars

\* C7: an accepted insert of Message M into Conversation C leaves, in the
\* same step, M stored, C.last_message_at = M.created_at and every other
\* Conversation as it was.
C7_LastMessageAt ==
    [][(Asked1("messages", "insert") /\ last'.result = "ok") =>
         LET m == last'.new IN
         /\ m \in messages' /\ m \notin messages
         /\ \E c \in conversations' : c.id = m.conversation_id
         /\ \A c \in conversations' :
               IF c.id = m.conversation_id
               THEN c.last_message_at = m.created_at
               ELSE c \in conversations]_vars

\* A message created at instant 1 was accepted: its conversation shows 1 and
\* another conversation still shows 0.
C7_Witness ==
    /\ Accepted("messages", "insert")
    /\ last.new.created_at = 1
    /\ \E c, d \in conversations : /\ c.id = last.new.conversation_id
                                   /\ c.last_message_at = 1
                                   /\ d.id # c.id /\ d.last_message_at = 0

(* --------------------------- the whole database ------------------------ *)
TotalRows ==
    Cardinality(posts) + Cardinality(likes) + Cardinality(comments) + Cardinality(follows)
    + Cardinality(conversations) + Cardinality(messages) + Cardinality(notifications)
Small == TotalRows < MaxTotal

\* The client sends the type that goes with what the notification points at.
TypeFor(post, comment) ==
    IF comment # NULL THEN "comment" ELSE IF post # NULL THEN "like" ELSE "follow"
\* A notification points at a post, at a comment, or at neither.
Pointers == {<<NULL, NULL>>} \cup {<<p, NULL>> : p \in Ids} \cup {<<NULL, k>> : k \in Ids}
NotificationInputs ==
    {[user_id |-> u, actor_id |-> a, type |-> TypeFor(x[1], x[2]), post_id |-> x[1],
      comment_id |-> x[2]] : u \in Users, a \in Users, x \in Pointers}

\* The rows a client writes in its own name.
Inserts(c) ==
    \/ \E r \in PostInputs : r.user_id = c /\ InsertPost(c, r)
    \/ \E r \in LikeInputs : r.user_id = c /\ InsertLike(c, r)
    \/ \E r \in CommentInputs : r.user_id = c /\ InsertComment(c, r)
    \/ \E r \in FollowInputs : r.follower_id = c /\ InsertFollow(c, r)
    \/ \E r \in ConversationInputs : r.user1_id = c /\ InsertConversation(c, r)
    \/ \E r \in MessageInputs : r.sender_id = c /\ InsertMessage(c, r)
    \/ \E r \in NotificationInputs : r.actor_id = c /\ InsertNotification(c, r)

Deletes(c) ==
    \/ \E old \in posts : DeletePost(c, old)
    \/ \E old \in likes : DeleteLike(c, old)
    \/ \E old \in comments : DeleteComment(c, old)
    \/ \E old \in follows : DeleteFollow(c, old)
    \/ \E old \in notifications : DeleteNotification(c, old)

Next ==
    \/ Respond /\ UNCHANGED clientVars
    \/ \E c \in Users : Small /\ Inserts(c) /\ UNCHANGED clientVars
    \/ \E c \in Users : Deletes(c) /\ UNCHANGED clientVars
    \/ \E old \in profiles : DeleteUser(old) /\ UNCHANGED clientVars

Spec == InitAccounts /\ [][Next]_vars

\* The rows of table T that reference, in column col, a row of S.
Pointing(T, col, S) == {r \in T : r[col] \in IdsOf(S)}

\* What is left, after profile p went, of the rows that referenced p or
\* referenced a row that did (the unprimed tables are those before the step).
LeftBehind(p) ==
    LET P == {p}
        itsPosts == Pointing(posts, "user_id", P)
        itsComments == Pointing(comments, "user_id", P)
        itsConversations ==
            Pointing(conversations, "user1_id", P) \cup Pointing(conversations, "user2_id", P)
    IN  Pointing(posts', "user_id", P)
        \cup Pointing(likes', "user_id", P) \cup Pointing(likes', "post_id", itsPosts)
        \cup Pointing(comments', "user_id", P) \cup Pointing(comments', "post_id", itsPosts)
        \cup Pointing(comments', "parent_id", itsComments)
        \cup Pointing(follows', "follower_id", P) \cup Pointing(follows', "following_id", P)
        \cup Pointing(conversations', "user1_id", P)
        \cup Pointing(conversations', "user2_id", P)
        \cup Pointing(messages', "sender_id", P)
        \cup Pointing(messages', "conversation_id", itsConversations)
        \cup Pointing(notifications', "user_id", P)
        \cup Pointing(notifications', "actor_id", P)
        \cup Pointing(notifications', "post_id", itsPosts)
        \cup Pointing(notifications', "comment_id", itsComments)

\* C1: when a Profile P is deleted, in the state after the deletion no Post,
\* Like, Comment, Follow, Conversation, Message or Notification references P
\* (as owner, follower, following, participant, sender, actor or recipient),
\* nor a post, comment or conversation of P (likes and comments on P's posts,
\* replies to P's comments, messages in P's conversations, notifications
\* pointing at P's posts or comments).
C1_CascadeComplete ==
    [][\A p \in profiles : p.id \notin IdsOf(profiles') => LeftBehind(p) = {}]_vars

\* A profile was deleted and the cascade took with it a notification that
\* names the profile neither as recipient nor as actor.
C1_Witness ==
    /\ last.table = "profiles" /\ last.op = "delete"
    /\ \E n \in gone.notifications : n.user_id # last.old.id /\ n.actor_id # last.old.id
    /\ posts # {}

(***************************************************************************)
(* Ownership: profiles, posts, likes, comments and follows written by      *)
(* any caller in any owner's name.                                         *)
(***************************************************************************)
OwnedTables == {"profiles", "posts", "likes", "comments", "follows"}
TableOf(d, t) ==
    CASE t = "profiles" -> d.profiles
      [] t = "posts" -> d.posts
      [] t = "likes" -> d.likes
      [] t = "comments" -> d.comments
      [] t = "follows" -> d.follows
\* The owner column of a row of table t.
OwnerOf(t, r) ==
    CASE t = "profiles" -> r.id
      [] t = "follows" -> r.follower_id
      [] OTHER -> r.user_id

RegisterInputs == {[id |-> u, username |-> Name(u)] : u \in Users}
TopCommentInputs == [user_id : Users, post_id : Ids, parent_id : {NULL}, content : {1}]
\* An update that names another owner, or changes the text.
ProfileOwnerPatches(old) == {[old EXCEPT !.id = u] : u \in Users}
PostOwnerPatches(old) ==
    {[old EXCEPT !.user_id = u] : u \in Users} \cup {[old EXCEPT !.content = 2]}
CommentOwnerPatches(old) ==
    {[old EXCEPT !.user_id = u] : u \in Users} \cup {[old EXCEPT !.content = 2]}

Population == Cardinality(profiles) + TotalRows
Sparse == Population < MaxTotal

NextOwnership ==
    \/ Respond /\ UNCHANGED clientVars
    \/ \E c \in Users : \E r \in RegisterInputs :
          Sparse /\ InsertProfile(c, r) /\ UNCHANGED clientVars
    \/ \E c \in Users : \E r \in PostInputs :
          Sparse /\ InsertPost(c, r) /\ UNCHANGED clientVars
    \/ \E c \in Users : \E r \in LikeInputs :
          Sparse /\ InsertLike(c, r) /\ UNCHANGED clientVars
    \/ \E c \in Users : \E r \in TopCommentInputs :
          Sparse /\ InsertComment(c, r) /\ UNCHANGED clientVars
    \/ \E c \in Users : \E r \in FollowInputs :
          Sparse /\ InsertFollow(c, r) /\ UNCHANGED clientVars
    \/ \E c \in Users : \E old \in profiles : \E r \in ProfileOwnerPatches(old) :
          UpdateProfile(c, old, r) /\ UNCHANGED clientVars
    \/ \E c \in Users : \E old \in posts : \E r \in PostOwnerPatches(old) :
          UpdatePost(c, old, r) /\ UNCHANGED clientVars
    \/ \E c \in Users : \E old \in comments : \E r \in CommentOwnerPatches(old) :
          UpdateComment(c, old, r) /\ UNCHANGED clientVars
    \/ \E c \in Users : \E old \in posts : DeletePost(c, old) /\ UNCHANGED clientVars
    \/ \E c \in Users : \E old \in likes : DeleteLike(c, old) /\ UNCHANGED clientVars
    \/ \E c \in Users : \E old \in comments : DeleteComment(c, old) /\ UNCHANGED clientVars
    \/ \E c \in Users : \E old \in follows : DeleteFollow(c, old) /\ UNCHANGED clientVars

SpecOwnership == InitEmpty /\ [][NextOwnership]_vars

\* Every row the step adds to an owned table is owned by the caller; every
\* row it removes or replaces is the caller's own target, or falls with the
\* caller's own deleted row by ON DELETE CASCADE.
OwnWritesOnly ==
    Idle /\ last'.table \in OwnedTables =>
        \A t \in OwnedTables :
            /\ \A r \in TableOf(DB', t) \ TableOf(DB, t) : OwnerOf(t, r) = last'.caller
            /\ \A r \in TableOf(DB, t) \ TableOf(DB', t) :
                  /\ OwnerOf(last'.table, last'.old) = last'.caller
                  /\ (t = last'.table /\ r = last'.old) \/ last'.op = "delete"
ReadsOpen ==
    \A x \in Users :
        /\ SelectProfiles(x) = profiles /\ SelectPosts(x) = posts /\ SelectLikes(x) = likes
        /\ SelectComments(x) = comments /\ SelectFollows(x) = follows

\* C9: a write to Profile, Post, Like, Comment or Follow is accepted only
\* when the caller is the row's owner (id; user_id; follower_id): no caller
\* inserts, updates or deletes a row owned by someone else, or hands a row to
\* another owner by an update; every authenticated caller reads all rows.
C9_OwnerOnlyWrites == [][OwnWritesOnly]_vars /\ []ReadsOpen

\* An owner's attempt to hand a post to another registered account was
\* refused by the policy, and the post is as it was.
C9_Witness ==
    /\ last.table = "posts" /\ last.op = "update" /\ last.result = "rls"
    /\ last.old.user_id = last.caller /\ last.new.user_id # last.caller
    /\ last.new.user_id \in IdsOf(profiles)
    /\ last.old \in posts

(***************************************************************************)
(* Notifications written, marked and deleted by any caller.                *)
(***************************************************************************)
\* An update that marks the row read, or names another recipient.
NotificationPatches(old) ==
    {[old EXCEPT !.is_read = TRUE]} \cup {[old EXCEPT !.user_id = u] : u \in Users}
FollowNotificationInputs ==
    {r \in NotificationInputs : r.post_id = NULL /\ r.comment_id = NULL}

NextNotifications ==
    \/ Respond /\ UNCHANGED clientVars
    \/ \E c \in Users : \E r \in FollowNotificationInputs :
          InsertNotification(c, r) /\ UNCHANGED clientVars
    \/ \E c \in Users : \E old \in notifications : \E r \in NotificationPatches(old) :
          UpdateNotification(c, old, r) /\ UNCHANGED clientVars
    \/ \E c \in Users : \E old \in notifications :
          DeleteNotification(c, old) /\ UNCHANGED clientVars

SpecNotifications == InitAccounts /\ [][NextNotifications]_vars

RecipientOnly ==
    Idle /\ last'.table = "notifications" =>
        /\ \A r \in notifications \ notifications' : r.user_id = last'.caller
        /\ \A r \in notifications' \ notifications :
              IF last'.op = "insert" THEN r.actor_id = last'.caller
              ELSE r.user_id = last'.caller
OwnNotificationsOnly ==
    \A x \in Users : \A n \in SelectNotifications(x) : n.user_id = x

\* C10: a select, update or delete of notifications by caller X returns or
\* touches only rows whose recipient is X; an insert by X is accepted only
\* with actor_id = X; an accepted update leaves the recipient equal to X.
C10_NotificationAccess == [][RecipientOnly]_vars /\ []OwnNotificationsOnly

\* A recipient has marked a notification read, and a caller who named
\* someone else as actor was refused.
C10_Witness ==
    /\ last.table = "notifications" /\ last.op = "insert" /\ last.result = "rls"
    /\ last.new.actor_id # last.caller /\ last.new.user_id = last.caller
    /\ \E n \in notifications : n.is_read /\ n.user_id # last.caller

(***************************************************************************)
(* Races: browser tabs that each look whether a row is there and, finding  *)
(* none, insert it; the statements of different tabs interleave.           *)
(***************************************************************************)
\* The two accounts whose tabs race, and the post they like.
RacerA == Owner(1)
RacerB == Owner(2)
Other(u) == IF u = RacerA THEN RacerB ELSE RacerA
Tasks ==
    {[kind |-> "like", uid |-> u, target |-> 1] : u \in {RacerA, RacerB}}
    \cup {[kind |-> k, uid |-> u, target |-> Other(u)] :
             k \in {"follow", "conversation"}, u \in {RacerA, RacerB}}

\* The rows a task looks for, among the rows T its caller is shown.
Matching(T, task) ==
    CASE task.kind = "like" ->
            {r \in T : r.user_id = task.uid /\ r.post_id = task.target}
      [] task.kind = "follow" ->
            {r \in T : r.follower_id = task.uid /\ r.following_id = task.target}
      [] task.kind = "conversation" ->
            {r \in T : \/ r.user1_id = task.uid /\ r.user2_id = task.target
                       \/ r.user1_id = task.target /\ r.user2_id = task.uid}
Shown(task) ==
    CASE task.kind = "like" -> SelectLikes(task.uid)
      [] task.kind = "follow" -> SelectFollows(task.uid)
      [] task.kind = "conversation" -> SelectConversations(task.uid)
Stored(task) ==
    CASE task.kind = "like" -> likes
      [] task.kind = "follow" -> follows
      [] task.kind = "conversation" -> conversations

DBUnchanged == UNCHANGED <<tables, now, last, gone>>

\* The tab reads whether the row is there: existingConv, isLiked, isFollowing.
CheckExisting(t, task) ==
    /\ Idle
    /\ tabs[t].pc = "idle"
    /\ tabs' = [tabs EXCEPT ![t] = [pc |-> "checked", task |-> task,
                                    found |-> Matching(Shown(task), task) # {},
                                    answer |-> "none"]]
    /\ DBUnchanged

\* The row was there: the tab opens it and inserts nothing.
OpenExisting(t) ==
    /\ Idle
    /\ tabs[t].pc = "checked" /\ tabs[t].found
    /\ tabs' = [tabs EXCEPT ![t].pc = "done"]
    /\ DBUnchanged

\* The row was not there when the tab looked: it inserts it.
SubmitInsert(t) ==
    LET task == tabs[t].task IN
    /\ tabs[t].pc = "checked" /\ ~tabs[t].found
    /\ \/ /\ task.kind = "like"
          /\ InsertLike(task.uid, [user_id |-> task.uid, post_id |-> task.target])
       \/ /\ task.kind = "follow"
          /\ InsertFollow(task.uid, [follower_id |-> task.uid, following_id |-> task.target])
       \/ /\ task.kind = "conversation"
          /\ InsertConversation(task.uid, [user1_id |-> task.uid, user2_id |-> task.target,
                                           last_message_at |-> now])
    /\ tabs' = [tabs EXCEPT ![t].pc = "sent"]

\* The tab gets the answer to its insert.
ReceiveAnswer(t) ==
    /\ tabs[t].pc = "sent"
    /\ tabs' = [tabs EXCEPT ![t].pc = "done", ![t].answer = last.result]
    /\ Respond

NextRace ==
    \/ \E t \in Tabs : \E task \in Tasks : CheckExisting(t, task)
    \/ \E t \in Tabs : OpenExisting(t)
    \/ \E t \in Tabs : SubmitInsert(t)
    \/ \E t \in Tabs : ReceiveAnswer(t)

SpecRace == InitPosts /\ [][NextRace]_vars

\* Two tasks whose rows collide on a uniqueness rule.
Colliding(a, b) ==
    /\ a.kind = b.kind
    /\ IF a.kind = "conversation" THEN {a.uid, a.target} = {b.uid, b.target}
       ELSE a.uid = b.uid /\ a.target = b.target
\* The tab found nothing, inserted, and has its answer.
Inserted(t) == tabs[t].pc = "done" /\ ~tabs[t].found
Rivals(t) == {u \in Tabs : Inserted(u) /\ Colliding(tabs[t].task, tabs[u].task)}

\* C8: among the tabs that found nothing and inserted colliding rows (the
\* same like, the same follow, a conversation of the same unordered pair,
\* (A,B) against (B,A) included), exactly one insert is accepted and every
\* other one fails with a uniqueness violation; the table never holds two
\* such rows.
C8_OneInsertWins ==
    /\ \A t \in Tabs : Inserted(t) =>
          /\ Cardinality({u \in Rivals(t) : tabs[u].answer = "ok"}) = 1
          /\ \A u \in Rivals(t) : tabs[u].answer \in {"ok", "unique"}
    /\ \A task \in Tasks : Cardinality(Matching(Stored(task), task)) <= 1

\* Two tabs ran startConversation for (A,B) and for (B,A), both found
\* nothing, both inserted: one was accepted and the other got the
\* uniqueness violation.
C8_Witness ==
    \E t, u \in Tabs :
        /\ Inserted(t) /\ Inserted(u)
        /\ tabs[t].task.kind = "conversation" /\ tabs[u].task.kind = "conversation"
        /\ tabs[t].task.uid = RacerA /\ tabs[u].task.uid = RacerB
        /\ tabs[t].answer = "ok" /\ tabs[u].answer = "unique"
        /\ Cardinality(conversations) = 1

(***************************************************************************)
(* Conversations: who may read, open and change them.                      *)
(***************************************************************************)
ParticipantsOnly ==
    Idle /\ last'.table = "conversations" =>
        /\ \A r \in conversations' \ conversations : last'.caller \in Pair(r)
        /\ \A r \in conversations \ conversations' : last'.caller \in Pair(r)
OwnConversationsOnly ==
    \A x \in Users : \A c \in SelectConversations(x) : x \in Pair(c)

\* C11: a select of conversations by caller X returns only conversations
\* with X as user1_id or user2_id; an insert is accepted only with X among
\* the new row's two participants; an update is accepted only when X is a
\* participant of the row before and after it.
C11_ConversationAccess == [][ParticipantsOnly]_vars /\ []OwnConversationsOnly

\* A participant's update that would have written them out of their own
\* conversation was refused by the policy, and the conversation is as it was.
C11_Witness ==
    /\ last.table = "conversations" /\ last.op = "update" /\ last.result = "rls"
    /\ last.caller \in Pair(last.old) /\ last.caller \notin Pair(last.new)
    /\ last.old \in conversations

(***************************************************************************)
(* Commands no policy covers, asked by any caller of a populated database. *)
(***************************************************************************)
SomeLikes == {[id |-> i, user_id |-> Owner(i + 1), post_id |-> i] : i \in Ids}
SomeFollows == {[id |-> i, follower_id |-> Owner(i), following_id |-> Owner(i + 1)] : i \in Ids}
SomeMessages ==
    {[id |-> i, conversation_id |-> i, sender_id |-> Owner(i), content |-> 1,
      is_read |-> FALSE, created_at |-> 0] : i \in Ids}

\* The accounts have posted, liked, followed, opened conversations and written.
InitBusy ==
    /\ profiles = Accounts /\ posts = SomePosts /\ likes = SomeLikes
    /\ follows = SomeFollows /\ conversations = SomeConversations
    /\ messages = SomeMessages /\ comments = {} /\ notifications = {}
    /\ now = 0 /\ last = NoRequest /\ gone = Gone(DB)
    /\ InitClient

LikePatches(old) ==
    {[old EXCEPT !.user_id = u] : u \in Users} \cup {[old EXCEPT !.post_id = i] : i \in Ids}
FollowPatches(old) ==
    {[old EXCEPT !.follower_id = u] : u \in Users}
    \cup {[old EXCEPT !.following_id = u] : u \in Users}

NextDenied ==
    \/ Respond /\ UNCHANGED clientVars
    \/ \E c \in Users : \E old \in profiles : DeleteProfile(c, old) /\ UNCHANGED clientVars
    \/ \E c \in Users : \E old \in conversations :
          DeleteConversation(c, old) /\ UNCHANGED clientVars
    \/ \E c \in Users : \E old \in messages : DeleteMessage(c, old) /\ UNCHANGED clientVars
    \/ \E c \in Users : \E old \in likes : \E r \in LikePatches(old) :
          UpdateLike(c, old, r) /\ UNCHANGED clientVars
    \/ \E c \in Users : \E old \in follows : \E r \in FollowPatches(old) :
          UpdateFollow(c, old, r) /\ UNCHANGED clientVars
    \/ \E c \in Users : \E old \in posts : DeletePost(c, old) /\ UNCHANGED clientVars
    \/ \E old \in profiles : DeleteUser(old) /\ UNCHANGED clientVars

SpecDenied == InitBusy /\ [][NextDenied]_vars

DeniedCommands ==
    {<<"profiles", "delete">>, <<"conversations", "delete">>, <<"messages", "delete">>,
     <<"likes", "update">>, <<"follows", "update">>}
\* A caller's request for one of these commands changes no table.
DeniedToCallers ==
    Idle /\ last'.caller # NULL /\ <<last'.table, last'.op>> \in DeniedCommands =>
        last'.result # "ok" /\ UNCHANGED tables
\* A profile goes only with its account; a conversation only with a
\* participant's profile; a message only with its conversation or its sender;
\* a like or a follow is never rewritten.
OnlyByCascade ==
    /\ profiles' # profiles => last'.caller = NULL
    /\ \A c \in conversations \ conversations' : Pair(c) \cap IdsOf(profiles \ profiles') # {}
    /\ \A m \in messages \ messages' :
          \/ m.conversation_id \in IdsOf(conversations \ conversations')
          \/ m.sender_id \in IdsOf(profiles \ profiles')
    /\ \A l \in likes : \A k \in likes' : l.id = k.id => l = k
    /\ \A f \in follows : \A k \in follows' : f.id = k.id => f = k

\* C12: commands with no policy are denied to every authenticated caller,
\* owner included: no caller request deletes a Profile, a Conversation or a
\* Message, or updates a Like or a Follow; such rows disappear only by
\* cascade from a deleted parent.
C12_NoPolicyDenied == [][DeniedToCallers /\ OnlyByCascade]_vars

\* The sender asked to delete their own message: no row was deleted and the
\* message is still there.
C12_Witness ==
    /\ last.table = "messages" /\ last.op = "delete" /\ last.result = "norows"
    /\ last.caller = last.old.sender_id
    /\ last.old \in messages

(***************************************************************************)
(* Edits: updates of profiles, posts and comments as the clock advances.   *)
(***************************************************************************)
SomeComments ==
    {[id |-> i, user_id |-> Owner(i), post_id |-> i, parent_id |-> NULL, content |-> 1,
      updated_at |-> 0] : i \in Ids}

\* The accounts are registered; the first of them has posted and commented.
InitEdits ==
    /\ profiles = Accounts
    /\ posts = {p \in SomePosts : p.id = 1}
    /\ comments = {k \in SomeComments : k.id = 1}
    /\ likes = {} /\ follows = {} /\ conversations = {} /\ messages = {}
    /\ notifications = {}
    /\ now = 0 /\ last = NoRequest /\ gone = Gone(DB)
    /\ InitClient

\* An update that supplies an updated_at: a past one, the present one, a
\* future one or the old one, with or without a new text.
TimedPatches(old) ==
    {[old EXCEPT !.updated_at = t] : t \in Times}
    \cup {[old EXCEPT !.updated_at = t, !.content = 2] : t \in Times}
TimedProfilePatches(old) == {[old EXCEPT !.updated_at = t] : t \in Times}

NextEdits ==
    \/ Respond /\ UNCHANGED clientVars
    \/ Tick /\ UNCHANGED clientVars
    \/ \E c \in Users : \E old \in profiles : \E r \in TimedProfilePatches(old) :
          UpdateProfile(c, old, r) /\ UNCHANGED clientVars
    \/ \E c \in Users : \E old \in posts : \E r \in TimedPatches(old) :
          UpdatePost(c, old, r) /\ UNCHANGED clientVars
    \/ \E c \in Users : \E old \in comments : \E r \in TimedPatches(old) :
          UpdateComment(c, old, r) /\ UNCHANGED clientVars

SpecEdits == InitEdits /\ [][NextEdits]_vars

Stamped(T) == \A r \in T : r.id = last'.new.id => r.updated_at = now

\* C13: after every accepted update of a Profile, Post or Comment the row's
\* updated_at is the instant of the update, whatever updated_at the caller
\* supplied (past, future or the old one).
C13_UpdatedAt ==
    [][Idle /\ last'.op = "update" /\ last'.result = "ok" =>
          /\ last'.table = "profiles" => Stamped(profiles')
          /\ last'.table = "posts" => Stamped(posts')
          /\ last'.table = "comments" => Stamped(comments')]_vars

\* A comment written at instant 0 was updated later, its text unchanged, and
\* carries the later instant.
C13_Witness ==
    /\ last.table = "comments" /\ last.op = "update" /\ last.result = "ok"
    /\ last.old.updated_at = 0 /\ now = MaxTime
    /\ last.new.content = last.old.content
    /\ \E r \in comments : r.id = last.old.id /\ r.updated_at = MaxTime

(***************************************************************************)
(* Texts and types: callers writing, in their own name, contents of every  *)
(* length around the limits and notification types known and unknown.      *)
(***************************************************************************)
PostLengths == {0, 1, PostMax, PostMax + 1}
CommentLengths == {0, 1, CommentMax, CommentMax + 1}
MessageLengths == {0, 1, MessageMax, MessageMax + 1}
SentTypes == NotificationTypes \cup {"poke", ""}

\* The accounts are registered and have opened conversations; the first has posted.
InitTexts ==
    /\ profiles = Accounts
    /\ posts = {p \in SomePosts : p.id = 1}
    /\ conversations = SomeConversations
    /\ likes = {} /\ comments = {} /\ follows = {} /\ messages = {} /\ notifications = {}
    /\ now = 0 /\ last = NoRequest /\ gone = Gone(DB)
    /\ InitClient

TextRows ==
    Cardinality(posts) + Cardinality(comments) + Cardinality(messages)
    + Cardinality(notifications)
FewTexts == TextRows < MaxRows

NextTexts ==
    \/ Respond /\ UNCHANGED clientVars
    \/ \E c \in Users : \E n \in PostLengths :
          FewTexts /\ InsertPost(c, [user_id |-> c, content |-> n]) /\ UNCHANGED clientVars
    \/ \E c \in Users : \E n \in CommentLengths :
          /\ FewTexts
          /\ InsertComment(c, [user_id |-> c, post_id |-> 1, parent_id |-> NULL,
                               content |-> n])
          /\ UNCHANGED clientVars
    \/ \E c \in Users : \E i \in Ids : \E n \in MessageLengths :
          /\ FewTexts
          /\ InsertMessage(c, [conversation_id |-> i, sender_id |-> c, content |-> n,
                               created_at |-> now])
          /\ UNCHANGED clientVars
    \/ \E c \in Users : \E t \in SentTypes :
          /\ FewTexts
          /\ InsertNotification(c, [user_id |-> Owner(1), actor_id |-> c, type |-> t,
                                    post_id |-> NULL, comment_id |-> NULL])
          /\ UNCHANGED clientVars
    \/ \E c \in Users : \E old \in posts : \E n \in PostLengths :
          UpdatePost(c, old, [old EXCEPT !.content = n]) /\ UNCHANGED clientVars
    \/ \E c \in Users : \E old \in comments : \E n \in CommentLengths :
          UpdateComment(c, old, [old EXCEPT !.content = n]) /\ UNCHANGED clientVars
    \/ \E c \in Users : \E old \in messages : \E n \in MessageLengths :
          UpdateMessage(c, old, [old EXCEPT !.content = n]) /\ UNCHANGED clientVars
    \/ \E c \in Users : \E old \in notifications : \E t \in SentTypes :
          UpdateNotification(c, old, [old EXCEPT !.type = t]) /\ UNCHANGED clientVars

SpecTexts == InitTexts /\ [][NextTexts]_vars

Between(n, lo, hi) == lo <= n /\ n <= hi
TextsInRange ==
    /\ \A p \in posts : Between(p.content, 1, 5000)
    /\ \A k \in comments : Between(k.content, 1, 2000)
    /\ \A m \in messages : Between(m.content, 1, 2000)
    /\ \A n \in notifications : n.type \in {"follow", "like", "comment", "mention", "message"}
\* The row the request asked for would break a limit.
BreaksLimit(req) ==
    CASE req.table = "posts" -> ~Between(req.new.content, 1, 5000)
      [] req.table \in {"comments", "messages"} -> ~Between(req.new.content, 1, 2000)
      [] req.table = "notifications" ->
            req.new.type \notin {"follow", "like", "comment", "mention", "message"}
      [] OTHER -> FALSE

\* C14: in every state every Post content has 1..5000 characters, every
\* Comment and Message content 1..2000, and every Notification type is one of
\* follow, like, comment, mention, message; an insert or update that would
\* break one of these is rejected.
C14_ContentLimits ==
    /\ []TextsInRange
    /\ [][Idle /\ last'.op \in {"insert", "update"} /\ BreaksLimit(last') =>
             last'.result # "ok" /\ UNCHANGED tables]_vars

\* The author's update of a stored comment to 2001 characters was refused by
\* the check constraint, after an update to 2000 characters was accepted.
C14_Witness ==
    /\ last.table = "comments" /\ last.op = "update" /\ last.result = "check"
    /\ last.new.content = 2001 /\ last.old.content = 2000
    /\ last.old \in comments

(***************************************************************************)
(* Refusals: writes of every kind of fault, as the clock advances.         *)
(***************************************************************************)
\* Messages a client may send: into a known or an unknown conversation, in
\* any sender's name, empty, short or too long.
FaultyMessageInputs ==
    [conversation_id : Ids \cup {MaxRows + 1}, sender_id : Users,
     content : {0, 1, MessageMax + 1}, created_at : {now}]
FewWrites == Cardinality(messages) + Cardinality(follows) < MaxRows

NextRefusals ==
    \/ Respond /\ UNCHANGED clientVars
    \/ Tick /\ UNCHANGED clientVars
    \/ \E c \in Users : \E r \in FaultyMessageInputs :
          FewWrites /\ InsertMessage(c, r) /\ UNCHANGED clientVars
    \/ \E c \in Users : \E r \in FollowInputs :
          FewWrites /\ r.follower_id = c /\ InsertFollow(c, r) /\ UNCHANGED clientVars
    \/ \E c \in Users : \E r \in ConversationInputs :
          FewWrites /\ r.user1_id = c /\ InsertConversation(c, r) /\ UNCHANGED clientVars
    \/ \E old \in messages :
          \E r \in {[old EXCEPT !.content = n] : n \in {0, MessageMax + 1}} :
             UpdateMessage(old.sender_id, old, r) /\ UNCHANGED clientVars

SpecRefusals == InitConversations /\ [][NextRefusals]_vars

MessagesOf(c) == {m \in messages : m.conversation_id = c.id}

\* C16: in every state a Conversation with at least one Message has
\* last_message_at equal to the greatest created_at among its Messages, for
\* any sequence of message inserts by both participants, inserts that supply
\* their own created_at included.
C16_LastIsGreatest ==
    \A c \in conversations :
        MessagesOf(c) # {} =>
            /\ \A m \in MessagesOf(c) : m.created_at <= c.last_message_at
            /\ \E m \in MessagesOf(c) : m.created_at = c.last_message_at

\* A conversation's participants write to it and set its last_message_at.
LastMessagePatches(old) == {[old EXCEPT !.last_message_at = t] : t \in Times}

NextDerived ==
    \/ Respond /\ UNCHANGED clientVars
    \/ Tick /\ UNCHANGED clientVars
    \/ \E c \in Users : \E i \in Ids :
          /\ InsertMessage(c, [conversation_id |-> i, sender_id |-> c, content |-> 1,
                               created_at |-> now])
          /\ UNCHANGED clientVars
    \/ \E c \in Users : \E old \in conversations : \E r \in LastMessagePatches(old) :
          UpdateConversation(c, old, r) /\ UNCHANGED clientVars

SpecDerived == InitConversations /\ [][NextDerived]_vars

\* C17: after a conversation is created its last_message_at changes only as
\* the side effect of a Message insert into that conversation; no request on
\* the conversations table sets it.
C17_LastIsDerived ==
    [][\A c \in conversations : \A d \in conversations' :
          c.id = d.id /\ c.last_message_at # d.last_message_at =>
              /\ last'.table = "messages" /\ last'.op = "insert"
              /\ last'.new.conversation_id = c.id]_vars

(***************************************************************************)
(* Threads: comments and replies written, re-parented and deleted by their *)
(* authors.                                                                *)
(***************************************************************************)
ParentPatches(old) == {[old EXCEPT !.parent_id = i] : i \in {NULL} \cup Ids}

NextThreads ==
    \/ Respond /\ UNCHANGED clientVars
    \/ \E c \in Users : \E r \in CommentInputs :
          r.user_id = c /\ InsertComment(c, r) /\ UNCHANGED clientVars
    \/ \E c \in Users : \E old \in comments : \E r \in ParentPatches(old) :
          UpdateComment(c, old, r) /\ UNCHANGED clientVars
    \/ \E c \in Users : \E old \in comments : DeleteComment(c, old) /\ UNCHANGED clientVars

SpecThreads == InitPosts /\ [][NextThreads]_vars

\* C18: comment threading has exactly one level: in every state a Comment
\* with a non-null parent_id points to a Comment whose own parent_id is null
\* (no reply of a reply, no comment that is its own parent) and that belongs
\* to the same Post.
C18_OneLevelThreads ==
    \A k \in comments :
        k.parent_id # NULL =>
            \E p \in comments :
                p.id = k.parent_id /\ p.parent_id = NULL /\ p.post_id = k.post_id

(***************************************************************************)
(* Reads: what a caller's selects return while others write rows the       *)
(* caller may not read.                                                    *)
(***************************************************************************)
FewPrivate == Cardinality(messages) + Cardinality(notifications) < MaxRows

NextReads ==
    \/ Respond /\ UNCHANGED clientVars
    \/ \E c \in Users : \E r \in MessageInputs :
          /\ FewPrivate /\ r.sender_id = c /\ InConversation(c, r.conversation_id)
          /\ InsertMessage(c, r) /\ UNCHANGED clientVars
    \/ \E c \in Users : \E r \in FollowNotificationInputs :
          /\ FewPrivate /\ r.actor_id = c /\ r.user_id # c
          /\ InsertNotification(c, r) /\ UNCHANGED clientVars
    \/ \E c \in Users : \E old \in messages :
          /\ ~old.is_read /\ c # old.sender_id /\ InConversation(c, old.conversation_id)
          /\ UpdateMessage(c, old, [old EXCEPT !.is_read = TRUE]) /\ UNCHANGED clientVars
    \/ \E old \in conversations : \E u \in Users :
          UpdateConversation(old.user1_id, old, [user1_id |-> old.user1_id, user2_id |-> u,
                                                 last_message_at |-> old.last_message_at])
          /\ UNCHANGED clientVars
    \/ \E old \in notifications :
          DeleteNotification(old.user_id, old) /\ UNCHANGED clientVars

\* The accounts and one conversation between the first two of them.
InitReads ==
    /\ profiles = Accounts
    /\ conversations = {c \in SomeConversations : c.id = 1}
    /\ posts = {} /\ likes = {} /\ comments = {} /\ follows = {}
    /\ messages = {} /\ notifications = {}
    /\ now = 0 /\ last = NoRequest /\ gone = Gone(DB)
    /\ InitClient

SpecReads == InitReads /\ [][NextReads]_vars

\* The rows caller x is authorised to read.
Readable(x) ==
    [conversations |-> {c \in conversations : x \in Pair(c)},
     messages |-> {m \in messages :
                      \E c \in conversations : c.id = m.conversation_id /\ x \in Pair(c)},
     notifications |-> {n \in notifications : n.user_id = x}]
\* What x's selects on these tables return, the unread counts included.
Answers(x) ==
    [conversations |-> SelectConversations(x),
     messages |-> SelectMessages(x),
     notifications |-> SelectNotifications(x),
     unread_messages |->
         Cardinality({m \in SelectMessages(x) : ~m.is_read /\ m.sender_id # x}),
     unread_notifications |-> Cardinality({n \in SelectNotifications(x) : ~n.is_read})]

\* C19: reads do not leak unreadable rows: for any caller X, two states that
\* differ only in Conversation, Message or Notification rows X is not
\* authorised to read give X the same result for every select on those
\* tables, counts included.
C19_NoReadLeak ==
    /\ [](\A x \in Users :
            /\ Answers(x).conversations = Readable(x).conversations
            /\ Answers(x).messages = Readable(x).messages
            /\ Answers(x).notifications = Readable(x).notifications)
    /\ [][\A x \in Users : Readable(x)' = Readable(x) => Answers(x)' = Answers(x)]_vars

\* A message was accepted in a conversation that leaves out an account which
\* has an unread notification of its own: that account's selects return its
\* notification and not the new message.
C19_Witness ==
    /\ last.table = "messages" /\ last.op = "insert" /\ last.result = "ok"
    /\ \E x \in Users :
          /\ last.new \notin SelectMessages(x)
          /\ Answers(x).unread_notifications = 1
          /\ Answers(x).unread_messages = 0

(***************************************************************************)
(* Integrity: inserts that name rows which may be gone, updates of the     *)
(* reference columns and deletes, on posts that have likes, comments and   *)
(* notifications.                                                          *)
(***************************************************************************)
\* The accounts, their posts and one conversation.
InitIntegrity ==
    /\ profiles = Accounts
    /\ posts = SomePosts
    /\ conversations = {c \in SomeConversations : c.id = 1}
    /\ likes = {} /\ comments = {} /\ follows = {}
    /\ messages = {} /\ notifications = {}
    /\ now = 0 /\ last = NoRequest /\ gone = Gone(DB)
    /\ InitClient

FewRefs ==
    Cardinality(likes) + Cardinality(comments) + Cardinality(follows)
    + Cardinality(messages) + Cardinality(notifications) < MaxTotal
\* Row i is liked, commented on and notified about by the account after its owner.
Visitor(i) == Owner(i + 1)

NextIntegrity ==
    \/ Respond /\ UNCHANGED clientVars
    \/ \E c \in Users : \E r \in LikeInputs :
          /\ FewRefs /\ r.user_id = c /\ c = Visitor(r.post_id)
          /\ InsertLike(c, r) /\ UNCHANGED clientVars
    \/ \E c \in Users : \E r \in CommentInputs :
          /\ FewRefs /\ r.user_id = c /\ c = Visitor(r.post_id)
          /\ InsertComment(c, r) /\ UNCHANGED clientVars
    \/ \E c \in Users : \E r \in FollowInputs :
          /\ FewRefs /\ r.follower_id = c /\ r.following_id = Owner(c + 1)
          /\ InsertFollow(c, r) /\ UNCHANGED clientVars
    \/ \E c \in Users : \E r \in NotificationInputs :
          /\ FewRefs /\ r.actor_id = c /\ r.user_id = Owner(c + 1)
          /\ c = Visitor(Max(r.post_id, r.comment_id))
          /\ InsertNotification(c, r) /\ UNCHANGED clientVars
    \/ \E old \in comments : \E r \in ParentPatches(old) :
          UpdateComment(old.user_id, old, r) /\ UNCHANGED clientVars
    \/ \E old \in posts : DeletePost(old.user_id, old) /\ UNCHANGED clientVars
    \/ \E old \in comments : DeleteComment(old.user_id, old) /\ UNCHANGED clientVars
    \/ \E old \in profiles : DeleteUser(old) /\ UNCHANGED clientVars

SpecIntegrity == InitIntegrity /\ [][NextIntegrity]_vars

\* Row ids present in a table, and whether a reference resolves in it.
Resolves(T, i) == \E r \in T : r.id = i
Integrity ==
    /\ \A r \in posts : Resolves(profiles, r.user_id)
    /\ \A r \in likes : Resolves(profiles, r.user_id) /\ Resolves(posts, r.post_id)
    /\ \A r \in comments :
          /\ Resolves(profiles, r.user_id) /\ Resolves(posts, r.post_id)
          /\ r.parent_id # NULL => Resolves(comments, r.parent_id)
    /\ \A r \in follows :
          Resolves(profiles, r.follower_id) /\ Resolves(profiles, r.following_id)
    /\ \A r \in conversations :
          Resolves(profiles, r.user1_id) /\ Resolves(profiles, r.user2_id)
    /\ \A r \in messages :
          Resolves(conversations, r.conversation_id) /\ Resolves(profiles, r.sender_id)
    /\ \A r \in notifications :
          /\ Resolves(profiles, r.user_id) /\ Resolves(profiles, r.actor_id)
          /\ r.post_id # NULL => Resolves(posts, r.post_id)
          /\ r.comment_id # NULL => Resolves(comments, r.comment_id)
\* An accepted delete of a post leaves neither the post nor a like, comment
\* or notification that names it, and keeps what belongs to other posts.
PostDeleteCascades ==
    Idle /\ last'.table = "posts" /\ last'.op = "delete" /\ last'.result = "ok" =>
        /\ last'.old \in posts /\ last'.old \notin posts'
        /\ \A r \in likes' \cup comments' : r.post_id # last'.old.id
        /\ \A r \in notifications' : r.post_id # last'.old.id
        /\ \A r \in likes : r.post_id # last'.old.id => r \in likes'
        /\ posts' = posts \ {last'.old}

FollowRow(T, u, p) == {r \in T : r.follower_id = u /\ r.following_id = p}
Followers(T, p) == {r \in T : r.following_id = p}

\* useAuth() of a signed-in tab: the user, and the user's own profile once
\* it has loaded (NULL before).
useAuth(u) == {[user |-> u, profile |-> NULL], [user |-> u, profile |-> u]}
\* !username || username === currentUserProfile?.username (usernames are unique).
isOwnProfile(p, auth) == auth.profile # NULL /\ p = auth.profile

ProfilePage(auth, p) ==
    [page |-> "ProfilePage", pc |-> "idle", user |-> auth.user, profile |-> p,
     isOwnProfile |-> isOwnProfile(p, auth), isFollowing |-> FALSE, followersCount |-> 0,
     undo |-> FALSE, prior |-> [isFollowing |-> FALSE, followersCount |-> 0], answer |-> "none"]

InitProfilePage ==
    /\ profiles = Accounts
    /\ posts = {} /\ likes = {} /\ comments = {} /\ follows = {}
    /\ conversations = {} /\ messages = {} /\ notifications = {}
    /\ now = 0 /\ last = NoRequest /\ gone = Gone(DB)
    /\ tabs \in [Tabs -> {ProfilePage([user |-> x[1], profile |-> x[1]], x[2]) :
                             x \in {y \in Users \X Users : y[1] # y[2]}}]

\* loadProfile: the counts and the follow row as the database has them.
loadProfile(t) ==
    LET s == tabs[t] IN
    /\ Idle /\ s.page = "ProfilePage" /\ s.pc = "idle"
    /\ tabs' = [tabs EXCEPT ![t] =
          [s EXCEPT !.followersCount = Cardinality(Followers(SelectFollows(s.user), s.profile)),
                    !.isFollowing = IF s.isOwnProfile THEN s.isFollowing
                                    ELSE FollowRow(SelectFollows(s.user), s.user, s.profile) # {},
                    !.answer = "none"]]
    /\ DBUnchanged

\* handleFollow up to its first await: the delete or the insert of the follow.
ProfilePage_handleFollow(t) ==
    LET s == tabs[t] IN
    /\ s.page = "ProfilePage" /\ s.pc = "idle" /\ ~s.isOwnProfile
    /\ IF s.isFollowing
       THEN DeleteFollows(s.user, FollowRow(follows, s.user, s.profile))
       ELSE InsertFollow(s.user, [follower_id |-> s.user, following_id |-> s.profile])
    /\ tabs' = [tabs EXCEPT ![t] =
          [s EXCEPT !.pc = IF s.isFollowing THEN "unfollow_sent" ELSE "follow_sent",
                    !.undo = s.isFollowing,
                    !.prior = [isFollowing |-> s.isFollowing,
                               followersCount |-> s.followersCount],
                    !.answer = "none"]]

\* The await returns; whatever the answer, the view state is set.
ProfilePage_followAnswered(t) ==
    LET s == tabs[t] IN
    /\ s.page = "ProfilePage" /\ s.pc \in {"follow_sent", "unfollow_sent"}
    /\ Respond
    /\ tabs' = [tabs EXCEPT ![t] =
          IF s.pc = "follow_sent"
          THEN [s EXCEPT !.pc = "notify", !.isFollowing = TRUE,
                         !.followersCount = s.followersCount + 1, !.answer = last.result]
          ELSE [s EXCEPT !.pc = "unnotify", !.isFollowing = FALSE,
                         !.followersCount = s.followersCount - 1, !.answer = last.result]]

\* The second await: the notification is inserted, or deleted by its filter.
ProfilePage_notify(t) ==
    LET s == tabs[t] IN
    /\ s.page = "ProfilePage" /\ s.pc \in {"notify", "unnotify"}
    /\ IF s.pc = "notify"
       THEN InsertNotification(s.user, [user_id |-> s.profile, actor_id |-> s.user,
                                        type |-> "follow", post_id |-> NULL,
                                        comment_id |-> NULL])
       ELSE DeleteNotifications(s.user,
               {n \in notifications : n.user_id = s.profile /\ n.actor_id = s.user
                                      /\ n.type = "follow"})
    /\ tabs' = [tabs EXCEPT ![t].pc = "notify_sent"]

ProfilePage_finished(t) ==
    /\ tabs[t].page = "ProfilePage" /\ tabs[t].pc = "notify_sent"
    /\ Respond
    /\ tabs' = [tabs EXCEPT ![t].pc = "idle"]

NextProfilePage ==
    \/ \E t \in Tabs : loadProfile(t)
    \/ \E t \in Tabs : ProfilePage_handleFollow(t)
    \/ \E t \in Tabs : ProfilePage_followAnswered(t)
    \/ \E t \in Tabs : ProfilePage_notify(t)
    \/ \E t \in Tabs : ProfilePage_finished(t)

SpecProfilePage == InitProfilePage /\ [][NextProfilePage]_vars

Rejected(res) == res \notin {"none", "ok", "norows"}

\* C21: when the follow insert or delete of handleFollow is rejected by the
\* database, then after handleFollow finishes isFollowing and followersCount
\* have the values they had before the call; and when an accepted call's
\* answer arrives isFollowing is true exactly when the Follow row (caller ->
\* profile) exists.
C21_OptimisticFollow ==
    /\ [](\A t \in Tabs :
            tabs[t].pc = "idle" /\ Rejected(tabs[t].answer) =>
                /\ tabs[t].isFollowing = tabs[t].prior.isFollowing
                /\ tabs[t].followersCount = tabs[t].prior.followersCount)
    /\ [][\A t \in Tabs :
            /\ tabs[t].pc \in {"follow_sent", "unfollow_sent"}
            /\ tabs'[t].pc \in {"notify", "unnotify"}
            /\ tabs'[t].answer = "ok"
            => (tabs'[t].isFollowing <=>
                    FollowRow(follows', tabs[t].user, tabs[t].profile) # {})]_vars

(***************************************************************************)
(* Layout: the unread badges of one tab, refreshed by loadUnreadCounts,    *)
(* which the interval, the focus and refreshCounters events and the        *)
(* change events start; several calls overlap and answer in any order.     *)
(***************************************************************************)
NoCall == [pc |-> "free", val |-> 0, ids |-> {}]
Layout(u) ==
    [user |-> u, unreadNotifications |-> 0, unreadMessages |-> 0,
     calls |-> [k \in Calls |-> NoCall]]
\* The account whose badges are watched, and the one who writes to it.
\* The tab that shows the badges; the others are not signed in.
LayoutTabs == {1}
Viewer == Owner(1)
Writer == Owner(2)

InitLayout ==
    /\ profiles = Accounts
    /\ conversations = {c \in SomeConversations : c.id = 1}
    /\ posts = {} /\ likes = {} /\ comments = {} /\ follows = {}
    /\ messages = {} /\ notifications = {}
    /\ now = 0 /\ last = NoRequest /\ gone = Gone(DB)
    /\ tabs = [t \in Tabs |-> IF t \in LayoutTabs THEN Layout(Viewer) ELSE IdleTab]

\* The three queries of loadUnreadCounts.
notifCount(u) ==
    Cardinality({n \in SelectNotifications(u) : n.user_id = u /\ ~n.is_read})
conversationIds(u) ==
    {c.id : c \in {x \in SelectConversations(u) : x.user1_id = u \/ x.user2_id = u}}
msgCount(u, ids) ==
    Cardinality({m \in SelectMessages(u) :
                    m.conversation_id \in ids /\ ~m.is_read /\ m.sender_id # u})

\* A call of loadUnreadCounts starts: its first query is on its way.
loadUnreadCounts(t) ==
    /\ \E k \in Calls :
          /\ tabs[t].calls[k].pc = "free"
          /\ \A j \in Calls : j < k => tabs[t].calls[j].pc # "free"
          /\ tabs' = [tabs EXCEPT ![t].calls[k] = [NoCall EXCEPT !.pc = "notifications"]]
    /\ DBUnchanged
\* setInterval(..., 10000), and the focus and refreshCounters listeners.
Layout_interval_never(t) == FALSE /\ loadUnreadCounts(t)
Layout_interval(t) == loadUnreadCounts(t)
\* A change event of the last accepted write reaches the tab, once or more
\* often; it may also never come.
Layout_onChange(t) ==
    /\ last.table \in {"notifications", "messages"} /\ last.result = "ok"
    /\ last.op \in {"insert", "update"}
    /\ loadUnreadCounts(t)

\* The database answers the query a call is waiting for.
Layout_query(t, k) ==
    LET s == tabs[t]
        call == s.calls[k] IN
    /\ call.pc \in {"notifications", "conversations", "messages"}
    /\ tabs' = [tabs EXCEPT ![t].calls[k] =
          CASE call.pc = "notifications" ->
                  [call EXCEPT !.pc = "notifications_back", !.val = notifCount(s.user)]
            [] call.pc = "conversations" ->
                  [call EXCEPT !.pc = "conversations_back", !.ids = conversationIds(s.user)]
            [] call.pc = "messages" ->
                  [call EXCEPT !.pc = "messages_back", !.val = msgCount(s.user, call.ids)]]
    /\ DBUnchanged
\* The await returns: the state is set and the next query sent.
Layout_await(t, k) ==
    LET s == tabs[t]
        call == s.calls[k] IN
    /\ call.pc \in {"notifications_back", "conversations_back", "messages_back"}
    /\ tabs' = [tabs EXCEPT ![t] =
          CASE call.pc = "notifications_back" ->
                  [s EXCEPT !.unreadNotifications = call.val,
                            !.calls[k] = [NoCall EXCEPT !.pc = "conversations"]]
            [] call.pc = "conversations_back" ->
                  [s EXCEPT !.calls[k] = [NoCall EXCEPT !.pc = "messages", !.ids = call.ids]]
            [] call.pc = "messages_back" ->
                  [s EXCEPT !.unreadMessages = call.val, !.calls[k] = NoCall]]
    /\ DBUnchanged

NextLayout ==
    \/ \E t \in LayoutTabs : Layout_interval(t)
    \/ \E t \in LayoutTabs : Layout_onChange(t)
    \/ \E t \in LayoutTabs : \E k \in Calls : Layout_query(t, k)
    \/ \E t \in LayoutTabs : \E k \in Calls : Layout_await(t, k)
    \/ Respond /\ UNCHANGED clientVars
    \/ \E r \in MessageInputs :
          /\ FewPrivate /\ r.sender_id = Writer /\ r.conversation_id = 1
          /\ InsertMessage(Writer, r) /\ UNCHANGED clientVars
    \/ /\ FewPrivate
       /\ InsertNotification(Writer, [user_id |-> Viewer, actor_id |-> Writer, type |-> "follow",
                                      post_id |-> NULL, comment_id |-> NULL])
       /\ UNCHANGED clientVars
    \/ \E old \in messages :
          /\ ~old.is_read
          /\ UpdateMessage(Viewer, old, [old EXCEPT !.is_read = TRUE]) /\ UNCHANGED clientVars
    \/ \E old \in notifications :
          /\ ~old.is_read
          /\ UpdateNotification(Viewer, old, [old EXCEPT !.is_read = TRUE])
          /\ UNCHANGED clientVars

\* The interval keeps firing and every query is answered in the end; a
\* change event need not arrive.
SpecLayout ==
    /\ InitLayout /\ [][NextLayout]_vars
    /\ WF_vars(Respond /\ UNCHANGED clientVars)
    /\ \A t \in LayoutTabs : WF_vars(Layout_interval(t))
    /\ \A t \in LayoutTabs : \A k \in Calls :
          WF_vars(Layout_query(t, k)) /\ WF_vars(Layout_await(t, k))

UnreadNotifications(u) == {n \in notifications : n.user_id = u /\ ~n.is_read}
UnreadMessages(u) ==
    {m \in messages :
        /\ ~m.is_read /\ m.sender_id # u
        /\ \E c \in conversations : c.id = m.conversation_id /\ u \in Pair(c)}
BadgesRight ==
    \A t \in LayoutTabs :
        /\ tabs[t].unreadNotifications = Cardinality(UnreadNotifications(tabs[t].user))
        /\ tabs[t].unreadMessages = Cardinality(UnreadMessages(tabs[t].user))

TableNames ==
    {"profiles", "posts", "likes", "comments", "follows", "conversations", "messages",
     "notifications"}
Commands == {"select", "insert", "update", "delete"}

\* CREATE POLICY of the schema: the table and the command of each policy.
OriginalPolicies ==
    {<<"profiles", "select">>, <<"profiles", "insert">>, <<"profiles", "update">>,
     <<"posts", "select">>, <<"posts", "insert">>, <<"posts", "update">>, <<"posts", "delete">>,
     <<"likes", "select">>, <<"likes", "insert">>, <<"likes", "delete">>,
     <<"comments", "select">>, <<"comments", "insert">>, <<"comments", "update">>,
     <<"comments", "delete">>,
     <<"follows", "select">>, <<"follows", "insert">>, <<"follows", "delete">>,
     <<"conversations", "select">>, <<"conversations", "insert">>,
     <<"conversations", "update">>,
     <<"messages", "select">>, <<"messages", "insert">>, <<"messages", "update">>,
     <<"notifications", "select">>, <<"notifications", "insert">>,
     <<"notifications", "update">>, <<"notifications", "delete">>}
\* DROP POLICY IF EXISTS and CREATE POLICY of the later migration.
DroppedPolicies ==
    {<<"profiles", "insert">>, <<"profiles", "update">>,
     <<"posts", "insert">>, <<"posts", "update">>, <<"posts", "delete">>,
     <<"likes", "insert">>, <<"likes", "delete">>,
     <<"comments", "insert">>, <<"comments", "update">>, <<"comments", "delete">>,
     <<"follows", "insert">>, <<"follows", "delete">>,
     <<"conversations", "select">>, <<"conversations", "insert">>,
     <<"conversations", "update">>,
     <<"messages", "select">>, <<"messages", "insert">>, <<"messages", "update">>,
     <<"notifications", "select">>, <<"notifications", "insert">>,
     <<"notifications", "update">>, <<"notifications", "delete">>}
CreatedPolicies == DroppedPolicies
FinalPolicies == (OriginalPolicies \ DroppedPolicies) \cup CreatedPolicies

\* The predicate of the original policy of table t for command cmd (USING and
\* WITH CHECK of an UPDATE policy have the same text); no policy, no access.
original_policy(t, cmd, uid, r) ==
    LET auth_uid == uid IN
    CASE <<t, cmd>> \in {<<"profiles", "select">>, <<"posts", "select">>, <<"likes", "select">>,
                        <<"comments", "select">>, <<"follows", "select">>} -> TRUE
      [] t = "profiles" /\ cmd \in {"insert", "update"} -> auth_uid = r.id
      [] t = "posts" /\ cmd \in {"insert", "update", "delete"} -> auth_uid = r.user_id
      [] t = "likes" /\ cmd \in {"insert", "delete"} -> auth_uid = r.user_id
      [] t = "comments" /\ cmd \in {"insert", "update", "delete"} -> auth_uid = r.user_id
      [] t = "follows" /\ cmd \in {"insert", "delete"} -> auth_uid = r.follower_id
      [] t = "conversations" /\ cmd \in {"select", "insert", "update"} ->
            auth_uid = r.user1_id \/ auth_uid = r.user2_id
      [] t = "messages" /\ cmd \in {"select", "update"} ->
            \E c \in conversations :
                c.id = r.conversation_id /\ (c.user1_id = auth_uid \/ c.user2_id = auth_uid)
      [] t = "messages" /\ cmd = "insert" ->
            /\ auth_uid = r.sender_id
            /\ \E c \in conversations :
                  c.id = r.conversation_id /\ (c.user1_id = auth_uid \/ c.user2_id = auth_uid)
      [] t = "notifications" /\ cmd \in {"select", "update", "delete"} -> auth_uid = r.user_id
      [] t = "notifications" /\ cmd = "insert" -> auth_uid = r.actor_id
      [] OTHER -> FALSE

\* The decision the database takes once the later migration has run: the
\* USING predicate on an existing row, the WITH CHECK predicate on a new one.
final_using(t, cmd, uid, r) ==
    CASE t = "profiles" /\ cmd = "select" -> profiles_select(uid, r)
      [] t = "profiles" /\ cmd = "update" -> profiles_update_using(uid, r)
      [] t = "profiles" /\ cmd = "delete" -> profiles_delete_using(uid, r)
      [] t = "posts" /\ cmd = "select" -> posts_select(uid, r)
      [] t = "posts" /\ cmd = "update" -> posts_update_using(uid, r)
      [] t = "posts" /\ cmd = "delete" -> posts_delete_using(uid, r)
      [] t = "likes" /\ cmd = "select" -> likes_select(uid, r)
      [] t = "likes" /\ cmd = "update" -> likes_update_using(uid, r)
      [] t = "likes" /\ cmd = "delete" -> likes_delete_using(uid, r)
      [] t = "comments" /\ cmd = "select" -> comments_select(uid, r)
      [] t = "comments" /\ cmd = "update" -> comments_update_using(uid, r)
      [] t = "comments" /\ cmd = "delete" -> comments_delete_using(uid, r)
      [] t = "follows" /\ cmd = "select" -> follows_select(uid, r)
      [] t = "follows" /\ cmd = "update" -> follows_update_using(uid, r)
      [] t = "follows" /\ cmd = "delete" -> follows_delete_using(uid, r)
      [] t = "conversations" /\ cmd = "select" -> conversations_select(uid, r)
      [] t = "conversations" /\ cmd = "update" -> conversations_update_using(uid, r)
      [] t = "conversations" /\ cmd = "delete" -> conversations_delete_using(uid, r)
      [] t = "messages" /\ cmd = "select" -> messages_select(uid, r)
      [] t = "messages" /\ cmd = "update" -> messages_update_using(uid, r)
      [] t = "messages" /\ cmd = "delete" -> messages_delete_using(uid, r)
      [] t = "notifications" /\ cmd = "select" -> notifications_select(uid, r)
      [] t = "notifications" /\ cmd = "update" -> notifications_update_using(uid, r)
      [] t = "notifications" /\ cmd = "delete" -> notifications_delete_using(uid, r)
final_check(t, cmd, uid, r) ==
    CASE t = "profiles" /\ cmd = "insert" -> profiles_insert_check(uid, r)
      [] t = "profiles" /\ cmd = "update" -> profiles_update_check(uid, r)
      [] t = "posts" /\ cmd = "insert" -> posts_insert_check(uid, r)
      [] t = "posts" /\ cmd = "update" -> posts_update_check(uid, r)
      [] t = "likes" /\ cmd = "insert" -> likes_insert_check(uid, r)
      [] t = "likes" /\ cmd = "update" -> likes_update_check(uid, r)
      [] t = "comments" /\ cmd = "insert" -> comments_insert_check(uid, r)
      [] t = "comments" /\ cmd = "update" -> comments_update_check(uid, r)
      [] t = "follows" /\ cmd = "insert" -> follows_insert_check(uid, r)
      [] t = "follows" /\ cmd = "update" -> follows_update_check(uid, r)
      [] t = "conversations" /\ cmd = "insert" -> conversations_insert_check(uid, r)
      [] t = "conversations" /\ cmd = "update" -> conversations_update_check(uid, r)
      [] t = "messages" /\ cmd = "insert" -> messages_insert_check(uid, r)
      [] t = "messages" /\ cmd = "update" -> messages_update_check(uid, r)
      [] t = "notifications" /\ cmd = "insert" -> notifications_insert_check(uid, r)
      [] t = "notifications" /\ cmd = "update" -> notifications_update_check(uid, r)

\* Rows a policy may be asked about: the columns the policies read.
PolicyRows(t) ==
    CASE t = "profiles" -> [id : Users]
      [] t \in {"posts", "likes", "comments"} -> [user_id : Users]
      [] t = "follows" -> [follower_id : Users]
      [] t = "conversations" -> [user1_id : Users, user2_id : Users]
      [] t = "messages" -> [conversation_id : 1..(MaxRows + 1), sender_id : Users]
      [] t = "notifications" -> [user_id : Users, actor_id : Users]

\* C23: for every table, command, caller and row the allow/deny decision of
\* the policies recreated with (SELECT auth.uid()) equals that of the
\* original policies, and every table has as many policies as before.
C23_PoliciesKept ==
    /\ \A t \in TableNames : \A cmd \in Commands : \A uid \in Users : \A r \in PolicyRows(t) :
          /\ cmd # "insert" => final_using(t, cmd, uid, r) = original_policy(t, cmd, uid, r)
          /\ cmd \in {"insert", "update"} =>
                final_check(t, cmd, uid, r) = original_policy(t, cmd, uid, r)
    /\ \A t \in TableNames :
          Cardinality({p \in FinalPolicies : p[1] = t})
              = Cardinality({p \in OriginalPolicies : p[1] = t})

\* A conversation has changed hands while it holds a message: one account
\* is let in by both sets of policies and another kept out by both.
C23_Witness ==
    /\ last.table = "conversations" /\ last.op = "update" /\ last.result = "ok"
    /\ \E m \in messages : \E u, v \in Users :
          /\ original_policy("messages", "select", u, m) /\ final_using("messages", "select", u, m)
          /\ ~original_policy("messages", "update", v, m)
          /\ ~final_check("messages", "update", v, m)

(***************************************************************************)
(* PostCard, ExplorePage and CommentSection: the handlers that write a     *)
(* row and then a notification about it.  In each tab record, answer is    *)
(* the database's answer to the first statement of the running call.       *)
(***************************************************************************)
LikeRow(T, u, p) == {r \in T : r.user_id = u /\ r.post_id = p}

(* PostCard *)
PostCard(auth, post) ==
    [page |-> "PostCard", pc |-> "idle", user |-> auth.user,
     post |-> [id |-> post.id, user_id |-> post.user_id],
     isLiked |-> FALSE, undo |-> FALSE, answer |-> "none"]

\* handleLike up to its first await: the delete or the insert of the like.
PostCard_handleLike(t) ==
    LET s == tabs[t] IN
    /\ s.page = "PostCard" /\ s.pc = "idle"
    /\ IF s.isLiked
       THEN DeleteLikes(s.user, LikeRow(likes, s.user, s.post.id))
       ELSE InsertLike(s.user, [user_id |-> s.user, post_id |-> s.post.id])
    /\ tabs' = [tabs EXCEPT ![t] =
          [s EXCEPT !.pc = "sent", !.undo = s.isLiked, !.answer = "none"]]

\* An await returns.  After the first, the notification is next (on a like,
\* only for another account's post); after the last, onUpdate reloads the
\* post and with it isLiked.
PostCard_awaited(t) ==
    LET s == tabs[t] IN
    /\ s.page = "PostCard" /\ s.pc \in {"sent", "notify_sent"}
    /\ Respond
    /\ tabs' = [tabs EXCEPT ![t] =
          IF s.pc = "sent" /\ (s.undo \/ s.user # s.post.user_id)
          THEN [s EXCEPT !.pc = "notify", !.answer = last.result]
          ELSE [s EXCEPT !.pc = "idle",
                         !.answer = IF s.pc = "sent" THEN last.result ELSE s.answer,
                         !.isLiked = LikeRow(SelectLikes(s.user), s.user, s.post.id) # {}]]

PostCard_notify(t) ==
    LET s == tabs[t] IN
    /\ s.page = "PostCard" /\ s.pc = "notify"
    /\ IF s.undo
       THEN DeleteNotifications(s.user,
               {n \in notifications : /\ n.user_id = s.post.user_id /\ n.actor_id = s.user
                                      /\ n.post_id = s.post.id /\ n.type = "like"})
       ELSE InsertNotification(s.user, [user_id |-> s.post.user_id, actor_id |-> s.user,
                                        type |-> "like", post_id |-> s.post.id,
                                        comment_id |-> NULL])
    /\ tabs' = [tabs EXCEPT ![t].pc = "notify_sent"]

(* ExplorePage *)
\* following: the accounts the listed cards show as followed (is_following).
ExplorePage(auth) ==
    [page |-> "ExplorePage", pc |-> "idle", user |-> auth.user, profileId |-> NULL,
     following |-> {}, undo |-> FALSE, answer |-> "none"]

\* handleFollow(profileId, isFollowing) of a listed card; the lists leave
\* out the user's own profile.
ExplorePage_handleFollow(t, profileId) ==
    LET s == tabs[t]
        isFollowing == profileId \in s.following IN
    /\ s.page = "ExplorePage" /\ s.pc = "idle" /\ profileId # s.user
    /\ IF isFollowing
       THEN DeleteFollows(s.user, FollowRow(follows, s.user, profileId))
       ELSE InsertFollow(s.user, [follower_id |-> s.user, following_id |-> profileId])
    /\ tabs' = [tabs EXCEPT ![t] =
          [s EXCEPT !.pc = "sent", !.profileId = profileId, !.undo = isFollowing,
                    !.answer = "none"]]

\* An await returns; after the last, handleSearch or loadSuggestedUsers
\* reloads the cards.
ExplorePage_awaited(t) ==
    LET s == tabs[t] IN
    /\ s.page = "ExplorePage" /\ s.pc \in {"sent", "notify_sent"}
    /\ Respond
    /\ tabs' = [tabs EXCEPT ![t] =
          IF s.pc = "sent"
          THEN [s EXCEPT !.pc = "notify", !.answer = last.result]
          ELSE [s EXCEPT !.pc = "idle",
                         !.following = {f.following_id :
                                           f \in {x \in SelectFollows(s.user) :
                                                     x.follower_id = s.user}}]]

ExplorePage_notify(t) ==
    LET s == tabs[t] IN
    /\ s.page = "ExplorePage" /\ s.pc = "notify"
    /\ IF s.undo
       THEN DeleteNotifications(s.user,
               {n \in notifications : /\ n.user_id = s.profileId /\ n.actor_id = s.user
                                      /\ n.type = "follow"})
       ELSE InsertNotification(s.user, [user_id |-> s.profileId, actor_id |-> s.user,
                                        type |-> "follow", post_id |-> NULL,
                                        comment_id |-> NULL])
    /\ tabs' = [tabs EXCEPT ![t].pc = "notify_sent"]

(* CommentSection *)
CommentSection(auth, post) ==
    [page |-> "CommentSection", pc |-> "idle", user |-> auth.user, postId |-> post.id,
     postOwnerId |-> post.user_id, undo |-> FALSE, answer |-> "none"]

CommentSection_handleSubmit(t) ==
    LET s == tabs[t] IN
    /\ s.page = "CommentSection" /\ s.pc = "idle"
    /\ InsertComment(s.user, [user_id |-> s.user, post_id |-> s.postId, parent_id |-> NULL,
                              content |-> 1])
    /\ tabs' = [tabs EXCEPT ![t] = [s EXCEPT !.pc = "sent", !.answer = "none"]]

\* if (!error) { ...; if (user.id !== postOwnerId) the notification }
CommentSection_awaited(t) ==
    LET s == tabs[t] IN
    /\ s.page = "CommentSection" /\ s.pc \in {"sent", "notify_sent"}
    /\ Respond
    /\ tabs' = [tabs EXCEPT ![t] =
          IF s.pc = "sent"
          THEN [s EXCEPT !.pc = IF last.result = "ok" /\ s.user # s.postOwnerId
                                THEN "notify" ELSE "idle",
                         !.answer = last.result]
          ELSE [s EXCEPT !.pc = "idle"]]

CommentSection_notify(t) ==
    LET s == tabs[t] IN
    /\ s.page = "CommentSection" /\ s.pc = "notify"
    /\ InsertNotification(s.user, [user_id |-> s.postOwnerId, actor_id |-> s.user,
                                   type |-> "comment", post_id |-> s.postId,
                                   comment_id |-> NULL])
    /\ tabs' = [tabs EXCEPT ![t].pc = "notify_sent"]

(***************************************************************************)
(* MessagesPage: the selected conversation, the displayed messages, the    *)
(* subscriptions that selecting a conversation opens (none is ever         *)
(* closed: the effect drops the function subscribeToMessages returns) and  *)
(* the loadMessages and markMessagesAsRead calls in flight.                *)
(***************************************************************************)
\* The account signed in in the browser whose tabs are modelled.
SignedIn == Owner(2)
NoConversation == [id |-> NULL, user1_id |-> NULL, user2_id |-> NULL]
Chosen(conv) == [id |-> conv.id, user1_id |-> conv.user1_id, user2_id |-> conv.user2_id]

MessagesPage(auth, conv) ==
    [page |-> "MessagesPage", pc |-> "idle", user |-> auth.user,
     selectedConversation |-> conv, sendTo |-> NoConversation,
     messages |-> {}, subscriptions |-> IF conv.id = NULL THEN {} ELSE {conv.id},
     loads |-> {}, marks |-> {}, answer |-> "none"]

\* loadMessages(c) is called: its query is on its way.
Load(c) == [conversationId |-> c, pc |-> "sent", data |-> {}]
\* The INSERT event of a message of conversation c reaches every tab that
\* has a subscription for c: loadMessages(c) and markMessagesAsRead(c).
OnInsert(tb, c) ==
    [t \in Tabs |->
        IF "subscriptions" \in DOMAIN tb[t] /\ c \in tb[t].subscriptions
        THEN [tb[t] EXCEPT !.loads = @ \cup {Load(c)}, !.marks = @ \cup {c}]
        ELSE tb[t]]

\* setSelectedConversation(conv) from the list, and the effect it triggers.
MessagesPage_select(t, conv) ==
    LET s == tabs[t] IN
    /\ Idle /\ s.page = "MessagesPage"
    /\ conv \in SelectConversations(s.user) /\ s.user \in Pair(conv)
    /\ conv.id # s.selectedConversation.id
    /\ tabs' = [tabs EXCEPT ![t] =
          [s EXCEPT !.selectedConversation = Chosen(conv),
                    !.loads = @ \cup {Load(conv.id)},
                    !.marks = @ \cup {conv.id},
                    !.subscriptions = @ \cup {conv.id}]]
    /\ DBUnchanged

\* The database answers a loadMessages query.
MessagesPage_query(t, l) ==
    LET s == tabs[t] IN
    /\ Idle /\ s.page = "MessagesPage" /\ l \in s.loads /\ l.pc = "sent"
    /\ tabs' = [tabs EXCEPT ![t].loads =
          (@ \ {l}) \cup {[l EXCEPT !.pc = "back",
                             !.data = {m.id : m \in {x \in SelectMessages(s.user) :
                                                        x.conversation_id = l.conversationId}}]}]
    /\ DBUnchanged
\* The await of loadMessages returns: setMessages(data || []).
loadMessages(t, l) ==
    LET s == tabs[t] IN
    /\ Idle /\ s.page = "MessagesPage" /\ l \in s.loads /\ l.pc = "back"
    /\ tabs' = [tabs EXCEPT ![t] = [s EXCEPT !.messages = l.data, !.loads = @ \ {l}]]
    /\ DBUnchanged

markMessagesAsRead(t, c) ==
    LET s == tabs[t] IN
    /\ s.page = "MessagesPage" /\ c \in s.marks
    /\ MarkRead(s.user, c)
    /\ tabs' = [tabs EXCEPT ![t].marks = @ \ {c}]

\* handleSendMessage up to its await: the insert of the message.
MessagesPage_handleSendMessage(t) ==
    LET s == tabs[t] IN
    /\ s.page = "MessagesPage" /\ s.pc = "idle" /\ s.selectedConversation.id # NULL
    /\ InsertMessage(s.user, [conversation_id |-> s.selectedConversation.id,
                              sender_id |-> s.user, content |-> 1, created_at |-> now])
    /\ LET tb == [tabs EXCEPT ![t] = [s EXCEPT !.pc = "sent", !.answer = "none",
                                               !.sendTo = s.selectedConversation]]
       IN tabs' = IF last'.result = "ok" THEN OnInsert(tb, s.selectedConversation.id) ELSE tb

\* if (!error) { loadMessages(selectedConversation.id); ...; the notification }
MessagesPage_awaited(t) ==
    LET s == tabs[t] IN
    /\ s.page = "MessagesPage" /\ s.pc \in {"sent", "notify_sent"}
    /\ Respond
    /\ tabs' = [tabs EXCEPT ![t] =
          IF s.pc = "sent" /\ last.result = "ok"
          THEN [s EXCEPT !.pc = "notify", !.answer = last.result,
                         !.loads = @ \cup {Load(s.sendTo.id)}]
          ELSE [s EXCEPT !.pc = "idle",
                         !.answer = IF s.pc = "sent" THEN last.result ELSE s.answer]]

MessagesPage_notify(t) ==
    LET s == tabs[t]
        recipientId == IF s.sendTo.user1_id = s.user THEN s.sendTo.user2_id
                       ELSE s.sendTo.user1_id IN
    /\ s.page = "MessagesPage" /\ s.pc = "notify"
    /\ InsertNotification(s.user, [user_id |-> recipientId, actor_id |-> s.user,
                                   type |-> "message", post_id |-> NULL,
                                   comment_id |-> NULL])
    /\ tabs' = [tabs EXCEPT ![t].pc = "notify_sent"]

\* The other party of one of the user's conversations sends a message.
Incoming(conv) ==
    LET sender == IF conv.user1_id = SignedIn THEN conv.user2_id ELSE conv.user1_id IN
    /\ SignedIn \in Pair(conv)
    /\ InsertMessage(sender, [conversation_id |-> conv.id, sender_id |-> sender,
                              content |-> 1, created_at |-> now])
    /\ tabs' = IF last'.result = "ok" THEN OnInsert(tabs, conv.id) ELSE tabs

\* The tab that shows the messages page.
MessageTabs == {1}
InitMessagesPage ==
    /\ profiles = Accounts
    /\ conversations = SomeConversations
    /\ posts = {} /\ likes = {} /\ comments = {} /\ follows = {}
    /\ messages = {} /\ notifications = {}
    /\ now = 0 /\ last = NoRequest /\ gone = Gone(DB)
    /\ tabs = [t \in Tabs |->
                 IF t \in MessageTabs
                 THEN MessagesPage([user |-> SignedIn, profile |-> SignedIn], NoConversation)
                 ELSE IdleTab]

NextMessagesPage ==
    \/ \E t \in MessageTabs : \E conv \in conversations : MessagesPage_select(t, conv)
    \/ \E t \in MessageTabs : \E l \in tabs[t].loads : MessagesPage_query(t, l)
    \/ \E t \in MessageTabs : \E l \in tabs[t].loads : loadMessages(t, l)
    \/ \E t \in MessageTabs : \E c \in Ids : markMessagesAsRead(t, c)
    \/ \E conv \in conversations : Incoming(conv)
    \/ Respond /\ UNCHANGED clientVars

SpecMessagesPage == InitMessagesPage /\ [][NextMessagesPage]_vars

\* C26: every markMessagesAsRead(c) call has c equal to the conversation
\* selected when it is made, for any sequence of conversation selections
\* and incoming message events.
C26_MarksOnlySelected ==
    [][\A t \in MessageTabs : \A c \in tabs'[t].marks \ tabs[t].marks :
          c = tabs'[t].selectedConversation.id]_vars

\* C27: once no loadMessages call is pending, the displayed messages are
\* exactly the messages of the selected conversation.
C27_ShowsSelected ==
    \A t \in MessageTabs :
        tabs[t].loads = {} /\ tabs[t].selectedConversation.id # NULL =>
            tabs[t].messages = {m.id : m \in {x \in messages :
                                   x.conversation_id = tabs[t].selectedConversation.id}}

(***************************************************************************)
(* Pages: the tabs of one browser, signed in as one account, all showing   *)
(* the same component; every handler that writes a notification.           *)
(***************************************************************************)
Components ==
    LET auth == [user |-> SignedIn, profile |-> SignedIn] IN
    {PostCard(auth, p) : p \in SomePosts}
    \cup {ProfilePage(a, p) : a \in useAuth(SignedIn), p \in Users}
    \cup {ExplorePage(auth)}
    \cup {CommentSection(auth, p) : p \in SomePosts}
    \cup {MessagesPage(auth, Chosen(c)) : c \in {x \in SomeConversations : SignedIn \in Pair(x)}}

InitPages ==
    /\ profiles = Accounts
    /\ posts = SomePosts
    /\ conversations = SomeConversations
    /\ likes = {} /\ comments = {} /\ follows = {}
    /\ messages = {} /\ notifications = {}
    /\ now = 0 /\ last = NoRequest /\ gone = Gone(DB)
    /\ \E c \in Components : tabs = [t \in Tabs |-> c]

NextPages ==
    \/ \E t \in Tabs : PostCard_handleLike(t)
    \/ \E t \in Tabs : PostCard_awaited(t)
    \/ \E t \in Tabs : PostCard_notify(t)
    \/ \E t \in Tabs : ProfilePage_handleFollow(t)
    \/ \E t \in Tabs : ProfilePage_followAnswered(t)
    \/ \E t \in Tabs : ProfilePage_notify(t)
    \/ \E t \in Tabs : ProfilePage_finished(t)
    \/ \E t \in Tabs : \E p \in Users : ExplorePage_handleFollow(t, p)
    \/ \E t \in Tabs : ExplorePage_awaited(t)
    \/ \E t \in Tabs : ExplorePage_notify(t)
    \/ \E t \in Tabs : CommentSection_handleSubmit(t)
    \/ \E t \in Tabs : CommentSection_awaited(t)
    \/ \E t \in Tabs : CommentSection_notify(t)
    \/ \E t \in Tabs : MessagesPage_handleSendMessage(t)
    \/ \E t \in Tabs : MessagesPage_awaited(t)
    \/ \E t \in Tabs : MessagesPage_notify(t)

SpecPages == InitPages /\ [][NextPages]_vars

\* The notifications the undo of tab record s is to remove.
NotificationsOf(T, s) ==
    CASE s.page = "PostCard" ->
            {n \in T : /\ n.type = "like" /\ n.user_id = s.post.user_id
                       /\ n.actor_id = s.user /\ n.post_id = s.post.id}
      [] s.page = "ProfilePage" ->
            {n \in T : n.type = "follow" /\ n.user_id = s.profile /\ n.actor_id = s.user}
      [] s.page = "ExplorePage" ->
            {n \in T : n.type = "follow" /\ n.user_id = s.profileId /\ n.actor_id = s.user}
      [] OTHER -> {}

\* C24: when handleLike completes an unlike, or handleFollow an unfollow,
\* no notification of that like or follow remains (same recipient, same
\* actor, same post).
C24_UndoRemovesNotification ==
    [][\A t \in Tabs :
          /\ tabs[t].page \in {"PostCard", "ProfilePage", "ExplorePage"}
          /\ tabs[t].pc = "notify_sent" /\ tabs'[t].pc = "idle" /\ tabs[t].undo
          => NotificationsOf(notifications', tabs[t]) = {}]_vars

\* C25: whenever a handler (handleLike, handleFollow, handleSubmit,
\* handleSendMessage) inserts a notification, the insert of the like,
\* follow, comment or message of the same call was accepted.
C25_NotifiesOnlyAccepted ==
    [][\A t \in Tabs :
          /\ tabs[t].pc = "notify" /\ tabs'[t].pc = "notify_sent"
          /\ last'.table = "notifications" /\ last'.op = "insert"
          => tabs[t].answer = "ok"]_vars

\* C30: no notification a handler inserts has its recipient equal to its
\* actor, in any state of the page.
C30_NoSelfNotification ==
    [][Idle /\ last'.table = "notifications" /\ last'.op = "insert" /\ last'.result = "ok"
          => last'.new.user_id # last'.new.actor_id]_vars

(***************************************************************************)
(* Participants: who a conversation is between, and who its messages are   *)
(* from, under the updates the policies accept.                            *)
(***************************************************************************)
\* C28: in every state reached through accepted requests, the sender_id of
\* each message is user1_id or user2_id of the message's conversation.
C28_SenderParticipates ==
    \A m \in messages : \E c \in conversations :
        c.id = m.conversation_id /\ m.sender_id \in Pair(c)

\* C29: no accepted request changes user1_id or user2_id of a conversation,
\* and a profile that may not read a message cannot read it after any later
\* request either.
C29_ParticipantsFixed ==
    [][/\ \A c \in conversations : \A d \in conversations' :
             d.id = c.id => (d.user1_id = c.user1_id /\ d.user2_id = c.user2_id)
       /\ \A m \in messages \cap messages' : \A x \in Users :
             ~messages_select(x, m) => ~(messages_select(x, m))']_vars

====
